---- MODULE Spec2Model ----
(***************************************************************************)
(* Event-driven segment processing and feature cache of                    *)
(* MultiModalAnalyzer_Optimized.py.                                        *)
(*                                                                         *)
(* Representation of time.  The program keeps times as integer            *)
(* milliseconds (start_ms, end_ms) and as float seconds (start_s, end_s,   *)
(* cache keys, VAD timeline keys).  Every float second value that occurs   *)
(* is ms / 1000.0 for an integer ms, or round(t, 1) for a bucket time, so  *)
(* a float second value is represented here by the integer number of       *)
(* milliseconds it denotes.  The conversion back, int(s * 1000), is NOT    *)
(* the identity in IEEE-754 doubles: see ms_of_s.                          *)
(***************************************************************************)
EXTENDS Integers, Sequences, FiniteSets, TLC

VARIABLES
    pc,                  \* position in analyze_video_audio / _process_segments_event_driven
    precomputed_vad,     \* self._precomputed_vad: None or [timeline |-> ordered dict]
    asr_segments,        \* argument asr_segments
    precomputed_audio,   \* argument precomputed_audio (its "duration", as seconds)
    seg_idx,             \* loop index of the outer for (1-based)
    sub_segments,        \* sub_segments of the RawSegment being processed
    sub_idx,             \* loop index of the inner for (1-based)
    processed_segments,  \* the list being returned
    total_end_s,         \* total_end_s
    audio_cache,         \* self.cache.audio_cache: dict in insertion order
    video_cache,         \* self.cache.video_cache: dict in insertion order
    split_log,           \* history: for each RawSegment visited, its sub_segments
    sub_log,             \* history: for each processed sub-segment, where it came from
    last,                \* history: provider outcomes of the last processed sub-segment
    cleanup_log,         \* history: the (current_time, max_age) of each cleanup call
    lookup_result,       \* history: (store, timestamp, result) of the last cache lookup
    futures,             \* the three futures of the precompute pool, and their completion order
    precomputed_video,   \* local precomputed_video of analyze_video_audio
    pause_detector,      \* whether self.pause_detector is set
    env,                 \* how the run was started and which providers are the built-in ones
    subprocess,          \* the external tool a subprocess.run call is waiting for, or None
    result,              \* what analyze_video_audio returned, or None
    exit_status,         \* exit status of the command, or None while it runs
    output,              \* what the command printed and the result file it saved
    relay                \* the RealtimeSTTServer of realtime_stt_server.py, its threads and tasks, or None

vars == <<pc, precomputed_vad, asr_segments, precomputed_audio, seg_idx,
          sub_segments, sub_idx, processed_segments, total_end_s,
          audio_cache, video_cache, split_log, sub_log, last, cleanup_log,
          lookup_result, futures, precomputed_video, pause_detector,
          env, relay, subprocess, result, exit_status, output>>

\* the variables of the precompute phase
PrecomputeVars == <<futures, precomputed_video, pause_detector>>

\* the variables of the command and of the top level of analyze_video_audio
RunVars == <<env, relay, subprocess, result, exit_status, output>>

---------------------------------------------------------------------------
(* Program constants (self.CFG and literals), times in ms.                 *)

max_segment_s == 12000
max_chars == 30
prosody_points == 15
cache_max_age_s == 300000
cache_valid_s == 2000
min_sub_segment_s == 1000
time_step == 500
default_end_ms == 3000
default_duration_s == 30000
default_fps == 30
extract_timeout == 60000
probe_timeout == 10000
mock_asr_step_s == 3000

---------------------------------------------------------------------------
(* Bounds of the model.                                                    *)

MaxSegs == 2
MaxCacheEntries == 2

---------------------------------------------------------------------------
(* Python values.                                                          *)

None == [kind |-> "None"]

\* a future that was not submitted
NoFuture == [state |-> "none", result |-> None, raised |-> FALSE, exception |-> FALSE]

\* no task submitted to the pool
NoFutures == [audio |-> NoFuture, video |-> NoFuture, asr |-> NoFuture, order |-> <<>>]

\* a run started by a library call with an audio path, every provider real
LibraryEnv ==
    [cli |-> FALSE, audio_path_given |-> TRUE, extract_audio |-> TRUE,
     HAS_LIBROSA |-> TRUE, mock_asr |-> FALSE, mock_pause_detector |-> FALSE]

NoOutput == [printed |-> <<>>, saved |-> None]

\* dict.get(key, default)
Get(d, k, default) == IF k \in DOMAIN d THEN d[k] ELSE default

\* asr_seg.get("end_ms", start_ms + 3000), for a segment that has a start_ms
EndMs(seg) == Get(seg, "end_ms", seg.start_ms + default_end_ms)

\* the same for a segment that may lack start_ms too
EndMs0(seg) == Get(seg, "end_ms", Get(seg, "start_ms", 0) + default_end_ms)

Max(a, b) == IF a >= b THEN a ELSE b

AbsDiff(a, b) == IF a >= b THEN a - b ELSE b - a

\* x / 1000.0 : the float second value of an integer ms count.  Distinct ms
\* counts give distinct doubles, in the same order, so the value is
\* represented by the ms count itself.
s_of_ms(ms) == ms

\* The ms counts up to 3000, and 16002, for which int((ms / 1000.0) * 1000) =
\* ms - 1 in IEEE-754 double arithmetic (the product falls just below the
\* integer and int() truncates).  All other ms counts used by the model
\* convert exactly.
LossyMs ==
    {1001, 1003, 1005, 1007, 1009, 1011, 1013, 1015, 1017, 1019, 1021, 1023,
     2002, 2006, 2010, 2014, 2018, 2022, 2026, 2030, 2034, 2038, 2042, 2046,
     16002}

\* int(s * 1000)
ms_of_s(s) == IF s \in LossyMs THEN s - 1 ELSE s

\* round(t, 1): the nearest multiple of 0.1 s.  (Bucket times of the model
\* never fall on a tie.)
round1(t) == ((t + 50) \div 100) * 100

---------------------------------------------------------------------------
(* Ordered dicts: a sequence of [t |-> key, f |-> value] in insertion      *)
(* order; assigning to an existing key keeps its position.                 *)

DictKeys(d) == {d[i].t : i \in 1..Len(d)}

\* mutant of DictPut: an entry already at the key is kept
DictPut_keeping_first(d, k, v) ==
    IF k \in DictKeys(d) THEN d ELSE Append(d, [t |-> k, f |-> v])

DictPut(d, k, v) ==
    IF k \in DictKeys(d)
    THEN [i \in 1..Len(d) |-> IF d[i].t = k THEN [t |-> k, f |-> v] ELSE d[i]]
    ELSE Append(d, [t |-> k, f |-> v])

DictAt(d, k) == (CHOOSE i \in 1..Len(d) : d[i].t = k)

---------------------------------------------------------------------------
(* Feature bundles.  An array is abstracted to its length, whether it is   *)
(* all zero, and the ms span the analyzer computed it over.                *)

Zeros(n) == [len |-> n, zero |-> TRUE, src |-> <<>>]

Analyzed(n, start_ms, end_ms) == [len |-> n, zero |-> FALSE, src |-> <<start_ms, end_ms>>]

FaceVocabulary == {"Smile", "Mouth", "EAR", "Brow", "Yaw", "Pitch", "Roll", "FaceSize"}

\* ProsodyAnalyzer.analyze_segment(audio_path, start_ms, end_ms, n_points)
prosody_analyze_segment(start_ms, end_ms, n_points) ==
    [pitch |-> Analyzed(n_points, start_ms, end_ms),
     rate  |-> Analyzed(n_points, start_ms, end_ms),
     level |-> Analyzed(n_points, start_ms, end_ms)]

\* FacialAnalyzer.analyze_segment(video_path, start_ms, end_ms): [mean, std] pairs
facial_analyze_segment(start_ms, end_ms) ==
    [k \in FaceVocabulary |-> Analyzed(2, start_ms, end_ms)]

get_default_sound_features ==
    [pitch |-> Zeros(prosody_points),
     rate  |-> Zeros(prosody_points),
     level |-> Zeros(prosody_points)]

get_default_face_features ==
    [k \in {"Smile", "Mouth", "EAR", "Brow", "Yaw", "Pitch", "Roll"} |-> Zeros(2)]

\* truth value of a dict: non-empty
Truthy(d) == d # None /\ DOMAIN d # {}

---------------------------------------------------------------------------
(* EventDrivenCache.  Each operation takes the store it reads and returns  *)
(* the value the method returns or the new value of the store.             *)

\* min(cache.keys(), key=lambda t: abs(t - timestamp)): the first key, in
\* iteration order, at the least distance
closest_time(cache, timestamp) ==
    LET first == CHOOSE i \in 1..Len(cache) :
                 /\ \A j \in 1..Len(cache) :
                        AbsDiff(cache[i].t, timestamp) <= AbsDiff(cache[j].t, timestamp)
                 /\ \A j \in 1..(i - 1) :
                        AbsDiff(cache[j].t, timestamp) > AbsDiff(cache[i].t, timestamp)
    IN cache[first].t

\* mutant of cache_is_valid: the window taken as inclusive
cache_is_valid_inclusive(closest, timestamp) == AbsDiff(closest, timestamp) <= cache_valid_s

cache_is_valid(closest, timestamp) == AbsDiff(closest, timestamp) < cache_valid_s

get_interpolated_audio(cache, timestamp, n_points) ==
    IF cache = <<>> THEN None
    ELSE LET closest == closest_time(cache, timestamp)
         IN IF cache_is_valid(closest, timestamp)
            THEN cache[DictAt(cache, closest)].f
            ELSE None

get_interpolated_video(cache, timestamp) ==
    IF cache = <<>> THEN None
    ELSE LET closest == closest_time(cache, timestamp)
         IN IF cache_is_valid(closest, timestamp)
            THEN cache[DictAt(cache, closest)].f
            ELSE None

store_audio_features(cache, timestamp, features) ==
    IF Truthy(features) /\ "sound" \in DOMAIN features
    THEN DictPut(cache, timestamp, features.sound)
    ELSE cache

store_video_features(cache, timestamp, features) ==
    IF Truthy(features) /\ "face" \in DOMAIN features
    THEN DictPut(cache, timestamp, features.face)
    ELSE cache

\* mutant of cache_entry_kept: an entry exactly at the cutoff is dropped
cache_entry_kept_strict(t, cutoff_time) == t > cutoff_time

cache_entry_kept(t, cutoff_time) == t >= cutoff_time

\* cleanup_old_cache(current_time, max_age): the new value of one store
cleanup_old_cache(cache, current_time, max_age) ==
    LET cutoff_time == current_time - max_age
        keep(e) == cache_entry_kept(e.t, cutoff_time)
    IN SelectSeq(cache, keep)

---------------------------------------------------------------------------
(* VAD timeline and segment splitter.                                      *)

\* for t in np.arange(start, end, time_step): timeline[round(t, 1)] = label
RECURSIVE arange_put(_, _, _, _)
arange_put(timeline, t, end, label) ==
    IF t < end
    THEN arange_put(DictPut(timeline, round1(t), label), t + time_step, end, label)
    ELSE timeline

RECURSIVE put_intervals(_, _, _, _)
put_intervals(timeline, segs, i, label) ==
    IF i > Len(segs) THEN timeline
    ELSE put_intervals(arange_put(timeline, segs[i].start_time, segs[i].end_time, label),
                       segs, i + 1, label)

\* speech buckets first, then pause buckets, a later label overwriting an
\* earlier one in place
build_vad_timeline(speech_segments, pause_segments) ==
    put_intervals(put_intervals(<<>>, speech_segments, 1, "speech"),
                  pause_segments, 1, "pause")

\* mutant of sub_seg_of: the two ends of the sub-segment exchanged
sub_seg_of_reversed(segment, from_s, to_s) ==
    [k \in (DOMAIN segment) \cup {"start_ms", "end_ms", "source"} |->
        IF k = "start_ms" THEN ms_of_s(to_s)
        ELSE IF k = "end_ms" THEN ms_of_s(from_s)
        ELSE IF k = "source" THEN "VAD_SPLIT"
        ELSE segment[k]]

\* sub_seg = segment.copy() with start_ms, end_ms and source replaced
sub_seg_of(segment, from_s, to_s) ==
    [k \in (DOMAIN segment) \cup {"start_ms", "end_ms", "source"} |->
        IF k = "start_ms" THEN ms_of_s(from_s)
        ELSE IF k = "end_ms" THEN ms_of_s(to_s)
        ELSE IF k = "source" THEN "VAD_SPLIT"
        ELSE segment[k]]

\* mutant of long_enough: any sub-segment of positive duration is accepted
long_enough_positive(from_s, to_s) == to_s - from_s > 0

\* mutant of long_enough: the minimum-duration test left out
long_enough_always(from_s, to_s) == TRUE

\* the test "split_point - prev_start > 1.0" and "end_s - prev_start > 1.0"
long_enough(from_s, to_s) == to_s - from_s > min_sub_segment_s

\* the for loop over split_points: the pair <<sub_segments, prev_start>>
RECURSIVE split_loop(_, _, _, _, _)
split_loop(split_points, i, prev_start, acc, segment) ==
    IF i > Len(split_points) THEN <<acc, prev_start>>
    ELSE IF long_enough(prev_start, split_points[i])
         THEN split_loop(split_points, i + 1, split_points[i],
                         Append(acc, sub_seg_of(segment, prev_start, split_points[i])),
                         segment)
         ELSE split_loop(split_points, i + 1, prev_start, acc, segment)

\* the split points: the pause buckets strictly inside the span, in the
\* iteration order of the timeline dict
split_points_of(vad_timeline, start_s, end_s) ==
    LET inside(e) == start_s < e.t /\ e.t < end_s /\ e.f = "pause"
        hits == SelectSeq(vad_timeline, inside)
    IN [i \in 1..Len(hits) |-> hits[i].t]

vad_split_segment_cached(start_s, end_s, segment) ==
    IF precomputed_vad = None THEN <<segment>>
    ELSE LET split_points == split_points_of(precomputed_vad.timeline, start_s, end_s)
         IN IF split_points = <<>> THEN <<segment>>
            ELSE LET r == split_loop(split_points, 1, start_s, <<>>, segment)
                     prev_start == r[2]
                 IN IF long_enough(prev_start, end_s)
                    THEN Append(r[1], sub_seg_of(segment, prev_start, end_s))
                    ELSE r[1]

\* the test that sends a RawSegment to the splitter
needs_split(asr_seg, start_s, end_s) ==
    \/ end_s - start_s > max_segment_s
    \/ Get(asr_seg, "text", [content |-> "", len |-> 0]).len > max_chars

---------------------------------------------------------------------------
(* Event detection and trigger policy (LightweightDetector).               *)

DetectOutcomes == {"raise", "none", "event"}

\* mutant of detect_events_in_segment: the video events are appended first
detect_events_in_segment_video_first(audio_out, video_out) ==
    LET audio_events == IF audio_out = "event" THEN <<[type |-> "audio_change"]>> ELSE <<>>
        video_events == IF video_out = "event" THEN <<[type |-> "visual_change"]>> ELSE <<>>
    IN IF audio_out = "raise" THEN <<>>
       ELSE IF video_out = "raise" THEN audio_events
       ELSE video_events \o audio_events

\* _detect_events_in_segment: the provider calls are inside one try; what was
\* appended before a call raised is kept
detect_events_in_segment(audio_out, video_out) ==
    LET audio_events == IF audio_out = "event" THEN <<[type |-> "audio_change"]>> ELSE <<>>
        video_events == IF video_out = "event" THEN <<[type |-> "visual_change"]>> ELSE <<>>
    IN IF audio_out = "raise" THEN <<>>
       ELSE IF video_out = "raise" THEN audio_events
       ELSE audio_events \o video_events

\* mutant of should_trigger_analysis: a single event does not trigger
should_trigger_analysis_needs_two(events, coin) ==
    LET should_trigger == Len(events) > 1 \/ coin
        reasons1 == IF Len(events) > 1
                    THEN <<[tag |-> "detected_events", n |-> Len(events)]>>
                    ELSE <<>>
        reasons2 == IF should_trigger /\ reasons1 = <<>>
                    THEN <<[tag |-> "random_trigger", n |-> 0]>>
                    ELSE reasons1
    IN [should_trigger |-> should_trigger, reasons |-> reasons2]

\* mutant of should_trigger_analysis: a random trigger gives no reason
should_trigger_analysis_silent_random(events, coin) ==
    LET should_trigger == Len(events) > 0 \/ coin
        reasons1 == IF Len(events) > 0
                    THEN <<[tag |-> "detected_events", n |-> Len(events)]>>
                    ELSE <<>>
    IN [should_trigger |-> should_trigger, reasons |-> reasons1]

\* should_trigger_analysis: coin is the outcome of np.random.random() > 0.5
should_trigger_analysis(events, coin) ==
    LET should_trigger == Len(events) > 0 \/ coin
        reasons1 == IF Len(events) > 0
                    THEN <<[tag |-> "detected_events", n |-> Len(events)]>>
                    ELSE <<>>
        reasons2 == IF should_trigger /\ reasons1 = <<>>
                    THEN <<[tag |-> "random_trigger", n |-> 0]>>
                    ELSE reasons1
    IN [should_trigger |-> should_trigger, reasons |-> reasons2]

---------------------------------------------------------------------------
(* SegmentResult builders.                                                 *)

EmptyText == [content |-> "", len |-> 0]

PlaceholderText == [content |-> "failed segment placeholder", len |-> 7]

result_meta(segment, default_source, mode) ==
    [schema_version |-> "1.2.0",
     source         |-> Get(segment, "source", default_source),
     fallback_vad   |-> FALSE,
     original_punct |-> Get(segment, "punct", ""),
     analysis_mode  |-> mode]

\* mutant of full_features: only the analyzer that raised is defaulted
full_features_per_analyzer(start_ms, end_ms, prosody_ok, facial_ok) ==
    [sound |-> IF prosody_ok
               THEN prosody_analyze_segment(start_ms, end_ms, prosody_points)
               ELSE get_default_sound_features,
     face  |-> IF prosody_ok /\ facial_ok
               THEN facial_analyze_segment(start_ms, end_ms)
               ELSE get_default_face_features]

\* what the except branch of _analyze_segment_full does with the features
full_features(start_ms, end_ms, prosody_ok, facial_ok) ==
    IF prosody_ok /\ facial_ok
    THEN [sound |-> prosody_analyze_segment(start_ms, end_ms, prosody_points),
          face  |-> facial_analyze_segment(start_ms, end_ms)]
    ELSE [sound |-> get_default_sound_features,
          face  |-> get_default_face_features]

analyze_segment_full(segment, start_s, end_s, prosody_ok, facial_ok) ==
    LET start_ms == ms_of_s(start_s)
        end_ms == ms_of_s(end_s)
        feats == full_features(start_ms, end_ms, prosody_ok, facial_ok)
    IN [segment_id |-> <<start_ms, end_ms>>,
        word       |-> Get(segment, "text", EmptyText),
        start_ms   |-> start_ms,
        end_ms     |-> end_ms,
        sound      |-> feats.sound,
        face       |-> feats.face,
        meta       |-> result_meta(segment, "ASR_PUNCT", "full_compute")]

\* mutant of analyze_segment_cached: a miss in one store discards the hit in the other
analyze_segment_cached_all_or_nothing(segment, start_s, end_s, acache, vcache) ==
    LET start_ms == ms_of_s(start_s)
        end_ms == ms_of_s(end_s)
        sound_features == get_interpolated_audio(acache, start_s, prosody_points)
        face_features == get_interpolated_video(vcache, start_s)
        missed == sound_features = None \/ face_features = None
    IN [segment_id |-> <<start_ms, end_ms>>,
        word       |-> Get(segment, "text", EmptyText),
        start_ms   |-> start_ms,
        end_ms     |-> end_ms,
        sound      |-> IF missed THEN get_default_sound_features ELSE sound_features,
        face       |-> IF missed THEN get_default_face_features ELSE face_features,
        meta       |-> result_meta(segment, "ASR_PUNCT", "cached_interpolation")]

\* mutant of analyze_segment_cached: a miss in both stores is reported as a failure
analyze_segment_cached_miss_is_error(segment, start_s, end_s, acache, vcache) ==
    LET start_ms == ms_of_s(start_s)
        end_ms == ms_of_s(end_s)
        sound_features == get_interpolated_audio(acache, start_s, prosody_points)
        face_features == get_interpolated_video(vcache, start_s)
        missed == sound_features = None /\ face_features = None
    IN [segment_id |-> <<start_ms, end_ms>>,
        word       |-> Get(segment, "text", EmptyText),
        start_ms   |-> start_ms,
        end_ms     |-> end_ms,
        sound      |-> IF sound_features = None THEN get_default_sound_features
                       ELSE sound_features,
        face       |-> IF face_features = None THEN get_default_face_features
                       ELSE face_features,
        meta       |-> result_meta(segment, "ASR_PUNCT",
                                   IF missed THEN "error_fallback"
                                   ELSE "cached_interpolation")]

analyze_segment_cached(segment, start_s, end_s, acache, vcache) ==
    LET start_ms == ms_of_s(start_s)
        end_ms == ms_of_s(end_s)
        sound_features == get_interpolated_audio(acache, start_s, prosody_points)
        face_features == get_interpolated_video(vcache, start_s)
    IN [segment_id |-> <<start_ms, end_ms>>,
        word       |-> Get(segment, "text", EmptyText),
        start_ms   |-> start_ms,
        end_ms     |-> end_ms,
        sound      |-> IF sound_features = None THEN get_default_sound_features
                       ELSE sound_features,
        face       |-> IF face_features = None THEN get_default_face_features
                       ELSE face_features,
        meta       |-> result_meta(segment, "ASR_PUNCT", "cached_interpolation")]

\* mutant of create_default_segment: the record is always marked
\* ERROR_FALLBACK and given the placeholder text
create_default_segment_marked(segment, start_s, end_s) ==
    LET start_ms == ms_of_s(start_s)
        end_ms == ms_of_s(end_s)
    IN [segment_id |-> <<start_ms, end_ms>>,
        word       |-> PlaceholderText,
        start_ms   |-> start_ms,
        end_ms     |-> end_ms,
        sound      |-> get_default_sound_features,
        face       |-> get_default_face_features,
        meta       |-> [result_meta(segment, "ERROR_FALLBACK", "error_fallback")
                            EXCEPT !.source = "ERROR_FALLBACK"]]

create_default_segment(segment, start_s, end_s) ==
    LET start_ms == ms_of_s(start_s)
        end_ms == ms_of_s(end_s)
    IN [segment_id |-> <<start_ms, end_ms>>,
        word       |-> Get(segment, "text", PlaceholderText),
        start_ms   |-> start_ms,
        end_ms     |-> end_ms,
        sound      |-> get_default_sound_features,
        face       |-> get_default_face_features,
        meta       |-> result_meta(segment, "ERROR_FALLBACK", "error_fallback")]

\* mutant of cache_segment_features: the face bundle is not stored
cache_segment_features_audio_only(acache, vcache, timestamp, segment_result) ==
    [audio |-> IF Truthy(segment_result.sound)
               THEN store_audio_features(acache, timestamp, [sound |-> segment_result.sound])
               ELSE acache,
     video |-> vcache]

\* _cache_segment_features: the two stores after caching segment_result
cache_segment_features(acache, vcache, timestamp, segment_result) ==
    [audio |-> IF Truthy(segment_result.sound)
               THEN store_audio_features(acache, timestamp, [sound |-> segment_result.sound])
               ELSE acache,
     video |-> IF Truthy(segment_result.face)
               THEN store_video_features(vcache, timestamp, [face |-> segment_result.face])
               ELSE vcache]

---------------------------------------------------------------------------
(* Inputs.                                                                 *)

Interval(a, b) == [start_time |-> a, end_time |-> b]

\* speech_segments / pause_segments returned by detect_pauses_from_file
SpeechInputs == { <<>>, <<Interval(2000, 3000)>> }

PauseInputs ==
    { <<>>,
      <<Interval(500, 1000)>>,
      <<Interval(1500, 2000)>>,
      <<Interval(1500, 3000)>>,
      <<Interval(2460, 3000), Interval(1500, 2000)>> }

Spans == { <<0, 1000>>, <<0, 3000>>, <<1001, 3000>>, <<1000, 301000>> }

\* a span over max_segment_s whose end does not survive int(s * 1000)
LongSpans == { <<0, 16002>> }

AsrText(n) == [content |-> "asr text", len |-> n]

\* RawSegments as the transcription provider returns them: every span with
\* a text at the max_chars limit, the spans shorter than max_segment_s with a
\* text over it, a segment that carries no "source" key, and one that carries
\* no "end_ms" key
RawSegs ==
    { [text |-> AsrText(30), start_ms |-> sp[1], end_ms |-> sp[2],
       source |-> "ASR_PUNCT", punct |-> "."] : sp \in Spans }
    \cup
    { [text |-> AsrText(31), start_ms |-> sp[1], end_ms |-> sp[2],
       source |-> "ASR_PUNCT", punct |-> "."] : sp \in Spans \ {<<1000, 301000>>} }
    \cup
    { [text |-> AsrText(31), start_ms |-> 0, end_ms |-> 3000, punct |-> "."] }
    \cup
    { [text |-> AsrText(30), start_ms |-> sp[1], end_ms |-> sp[2],
       source |-> "ASR_PUNCT", punct |-> "."] : sp \in LongSpans }
    \cup
    { [text |-> AsrText(31), start_ms |-> 1001, source |-> "ASR_PUNCT", punct |-> "."] }

SegLists == UNION { [1..n -> RawSegs] : n \in 1..MaxSegs }

\* precomputed_audio["duration"], seconds: the measured duration of the
\* source, or the 30.0 that _precompute_audio falls back to
Durations == {5000, 30000}

NoOutcome == [trigger |-> "none", prosody |-> "none", facial |-> "none"]

---------------------------------------------------------------------------
(* One iteration of the inner loop body, lines 682-711.                    *)

\* mutant of on_sub_segment_failure: the failure is logged and nothing appended
on_sub_segment_failure_drops(sub_seg, sub_start_s, sub_end_s) == <<>>

\* the except branch of the inner try: what is appended for a failed sub-segment
on_sub_segment_failure(sub_seg, sub_start_s, sub_end_s) ==
    <<create_default_segment(sub_seg, sub_start_s, sub_end_s)>>

\* mutant of process_sub_segment: the cached path stores what it served
process_sub_segment_storing_cached(sub_seg, sub_start_s, sub_end_s, acache, vcache, events, trig_raises, coin, prosody_ok, facial_ok) ==
    IF trig_raises
    THEN [emitted |-> on_sub_segment_failure(sub_seg, sub_start_s, sub_end_s),
          audio |-> acache, video |-> vcache]
    ELSE LET segment_result ==
                 IF should_trigger_analysis(events, coin).should_trigger
                 THEN analyze_segment_full(sub_seg, sub_start_s, sub_end_s, prosody_ok, facial_ok)
                 ELSE analyze_segment_cached(sub_seg, sub_start_s, sub_end_s, acache, vcache)
             stores == cache_segment_features(acache, vcache, sub_start_s, segment_result)
         IN [emitted |-> <<segment_result>>, audio |-> stores.audio, video |-> stores.video]

\* [emitted |-> results appended, audio/video |-> the stores afterwards]
process_sub_segment(sub_seg, sub_start_s, sub_end_s, acache, vcache, events, trig_raises, coin, prosody_ok, facial_ok) ==
    IF trig_raises
    THEN [emitted |-> on_sub_segment_failure(sub_seg, sub_start_s, sub_end_s),
          audio |-> acache, video |-> vcache]
    ELSE IF should_trigger_analysis(events, coin).should_trigger
    THEN LET segment_result ==
                 analyze_segment_full(sub_seg, sub_start_s, sub_end_s, prosody_ok, facial_ok)
             stores == cache_segment_features(acache, vcache, sub_start_s, segment_result)
         IN [emitted |-> <<segment_result>>, audio |-> stores.audio, video |-> stores.video]
    ELSE [emitted |-> <<analyze_segment_cached(sub_seg, sub_start_s, sub_end_s, acache, vcache)>>,
          audio |-> acache, video |-> vcache]

\* what the history variable records about the provider calls of one sub-segment
outcome_of(events, trig_raises, coin, prosody_ok, facial_ok) ==
    LET triggered == ~trig_raises /\ should_trigger_analysis(events, coin).should_trigger
    IN [trigger |-> IF trig_raises THEN "raise"
                    ELSE IF triggered THEN "true" ELSE "false",
        prosody |-> IF ~triggered THEN "none"
                    ELSE IF prosody_ok THEN "ok" ELSE "raise",
        facial  |-> IF ~triggered \/ ~prosody_ok THEN "none"
                    ELSE IF facial_ok THEN "ok" ELSE "raise"]

\* The outcomes of the provider calls of one sub-segment.  A call that is not
\* reached has no outcome, so of the combinations that differ only in calls
\* that are not made one is kept: the video detector is not called after the
\* audio detector raised, the coin is not tossed when there are events, and
\* the analyzers are not called unless the trigger fires.
ProviderOutcomes ==
    { o \in [audio_out : DetectOutcomes, video_out : DetectOutcomes,
             trig_raises : BOOLEAN, coin : BOOLEAN,
             prosody_ok : BOOLEAN, facial_ok : BOOLEAN] :
        LET events == detect_events_in_segment(o.audio_out, o.video_out)
            fires == ~o.trig_raises /\ should_trigger_analysis(events, o.coin).should_trigger
        IN /\ (o.audio_out = "raise" => o.video_out = "none")
           /\ (o.trig_raises \/ Len(events) > 0 => ~o.coin)
           /\ (~fires => o.prosody_ok /\ o.facial_ok)
           /\ (~o.prosody_ok => o.facial_ok) }

---------------------------------------------------------------------------
(* Actions.                                                                *)

Init ==
    /\ pc = "precompute"
    /\ precomputed_vad = None
    /\ asr_segments = <<>>
    /\ precomputed_audio = [duration |-> 0]
    /\ seg_idx = 0
    /\ sub_segments = <<>>
    /\ sub_idx = 0
    /\ processed_segments = <<>>
    /\ total_end_s = 0
    /\ audio_cache = <<>>
    /\ video_cache = <<>>
    /\ split_log = <<>>
    /\ sub_log = <<>>
    /\ last = NoOutcome
    /\ cleanup_log = <<>>
    /\ lookup_result = None
    /\ futures = NoFutures
    /\ precomputed_video = None
    /\ pause_detector = TRUE
    /\ env = LibraryEnv
    /\ subprocess = None
    /\ result = None
    /\ exit_status = None
    /\ output = NoOutput
    /\ relay = None

\* _precompute_vad, the provider succeeding
PrecomputeVad ==
    /\ pc = "precompute"
    /\ UNCHANGED PrecomputeVars
    /\ UNCHANGED RunVars
    /\ \E speech \in SpeechInputs, pause \in PauseInputs :
           precomputed_vad' = [timeline |-> build_vad_timeline(speech, pause)]
    /\ pc' = "ready"
    /\ UNCHANGED <<asr_segments, precomputed_audio, seg_idx, sub_segments, sub_idx,
                   processed_segments, total_end_s, audio_cache, video_cache,
                   split_log, sub_log, last, cleanup_log, lookup_result>>

\* _precompute_vad with the provider raising, or no pause detector configured:
\* self._precomputed_vad is left as it was
PrecomputeVadFails ==
    /\ pc = "precompute"
    /\ UNCHANGED PrecomputeVars
    /\ UNCHANGED RunVars
    /\ pc' = "ready"
    /\ UNCHANGED <<precomputed_vad, asr_segments, precomputed_audio, seg_idx,
                   sub_segments, sub_idx, processed_segments, total_end_s,
                   audio_cache, video_cache, split_log, sub_log, last, cleanup_log,
                   lookup_result>>

\* mutant of RunCleanup: only the audio store is pruned
RunCleanup_audio_only(acache, vcache, reference) ==
    /\ audio_cache' = cleanup_old_cache(acache, reference, cache_max_age_s)
    /\ video_cache' = vcache
    /\ cleanup_log' = Append(cleanup_log,
                             [current_time |-> reference, max_age |-> cache_max_age_s])

\* the cleanup call of _process_segments_event_driven
RunCleanup(acache, vcache, reference) ==
    /\ audio_cache' = cleanup_old_cache(acache, reference, cache_max_age_s)
    /\ video_cache' = cleanup_old_cache(vcache, reference, cache_max_age_s)
    /\ cleanup_log' = Append(cleanup_log,
                             [current_time |-> reference, max_age |-> cache_max_age_s])

\* the reference of the cleanup on an empty list
empty_reference(audio) == Get(audio, "duration", 0)

\* _process_segments_event_driven on an empty list, lines 641-652
ProcessSegmentsEmpty ==
    /\ pc = "ready"
    /\ UNCHANGED PrecomputeVars
    /\ UNCHANGED RunVars
    /\ \E d \in Durations :
          /\ precomputed_audio' = [duration |-> d]
          /\ total_end_s' = empty_reference([duration |-> d])
          /\ RunCleanup(audio_cache, video_cache, empty_reference([duration |-> d]))
    /\ asr_segments' = <<>>
    /\ pc' = "done"
    /\ UNCHANGED <<precomputed_vad, seg_idx, sub_segments, sub_idx, processed_segments,
                   split_log, sub_log, last, lookup_result>>

\* _process_segments_event_driven on a non-empty list, lines 641-654
ProcessSegmentsBegin ==
    /\ pc = "ready"
    /\ UNCHANGED PrecomputeVars
    /\ UNCHANGED RunVars
    /\ \E segs \in SegLists : asr_segments' = segs
    /\ \E d \in Durations : precomputed_audio' = [duration |-> d]
    /\ total_end_s' = 0
    /\ seg_idx' = 1
    /\ pc' = "seg"
    /\ UNCHANGED <<precomputed_vad, sub_segments, sub_idx, processed_segments,
                   audio_cache, video_cache, split_log, sub_log, last, cleanup_log,
                   lookup_result>>

\* mutant of AfterSegment: the cleanup is inside the loop, run for every RawSegment
AfterSegment_cleaning_each(acache, vcache, reference) ==
    /\ seg_idx' = seg_idx + 1
    /\ pc' = IF seg_idx = Len(asr_segments) THEN "done" ELSE "seg"
    /\ RunCleanup(acache, vcache, reference)

\* leaving the body of the outer loop for RawSegment seg_idx: the next
\* iteration, or after the last one the cleanup and the return (lines 723-730)
AfterSegment(acache, vcache, reference) ==
    /\ seg_idx' = seg_idx + 1
    /\ IF seg_idx = Len(asr_segments)
       THEN /\ pc' = "done"
            /\ RunCleanup(acache, vcache, reference)
       ELSE /\ pc' = "seg"
            /\ audio_cache' = acache
            /\ video_cache' = vcache
            /\ UNCHANGED cleanup_log

\* mutant of track_end: the end of the segment at hand, not the maximum
track_end_last(total, end_s) == end_s

\* the new total_end_s
track_end(total, end_s) == Max(total, end_s)

\* outer loop, lines 655-672: read the RawSegment, split it if needed
EnterSegment ==
    /\ pc = "seg"
    /\ UNCHANGED PrecomputeVars
    /\ UNCHANGED RunVars
    /\ seg_idx <= Len(asr_segments)
    /\ LET asr_seg == asr_segments[seg_idx]
           start_ms == Get(asr_seg, "start_ms", 0)
           end_ms == Get(asr_seg, "end_ms", start_ms + default_end_ms)
           start_s == s_of_ms(start_ms)
           end_s == s_of_ms(end_ms)
           subs == IF needs_split(asr_seg, start_s, end_s)
                   THEN vad_split_segment_cached(start_s, end_s, asr_seg)
                   ELSE <<asr_seg>>
       IN /\ total_end_s' = track_end(total_end_s, end_s)
          /\ sub_segments' = subs
          /\ split_log' = Append(split_log, subs)
          /\ IF subs = <<>>
             THEN /\ sub_idx' = 0
                  /\ AfterSegment(audio_cache, video_cache, track_end(total_end_s, end_s))
             ELSE /\ sub_idx' = 1
                  /\ pc' = "sub"
                  /\ UNCHANGED <<seg_idx, audio_cache, video_cache, cleanup_log>>
    /\ UNCHANGED <<precomputed_vad, asr_segments, precomputed_audio, processed_segments,
                   sub_log, last, lookup_result>>

\* inner loop, lines 675-711: one sub-segment
ProcessSubSegment ==
    /\ pc = "sub"
    /\ UNCHANGED PrecomputeVars
    /\ UNCHANGED RunVars
    /\ sub_idx <= Len(sub_segments)
    /\ \E o \in ProviderOutcomes :
          LET audio_out == o.audio_out
              video_out == o.video_out
              trig_raises == o.trig_raises
              coin == o.coin
              prosody_ok == o.prosody_ok
              facial_ok == o.facial_ok
              sub_seg == sub_segments[sub_idx]
              sub_start_ms == Get(sub_seg, "start_ms", 0)
              sub_start_s == s_of_ms(sub_start_ms)
              sub_end_s == s_of_ms(Get(sub_seg, "end_ms", sub_start_ms + default_end_ms))
              new_total == track_end(total_end_s, sub_end_s)
              events == detect_events_in_segment(audio_out, video_out)
              r == process_sub_segment(sub_seg, sub_start_s, sub_end_s,
                                       audio_cache, video_cache,
                                       events, trig_raises, coin, prosody_ok, facial_ok)
          IN /\ total_end_s' = new_total
             /\ processed_segments' = processed_segments \o r.emitted
             /\ sub_log' = Append(sub_log, [seg |-> seg_idx, sub_seg |-> sub_seg,
                                            failed |-> trig_raises])
             /\ last' = outcome_of(events, trig_raises, coin, prosody_ok, facial_ok)
             /\ IF sub_idx < Len(sub_segments)
                THEN /\ sub_idx' = sub_idx + 1
                     /\ audio_cache' = r.audio
                     /\ video_cache' = r.video
                     /\ UNCHANGED <<pc, seg_idx, cleanup_log>>
                ELSE /\ sub_idx' = 0
                     /\ AfterSegment(r.audio, r.video, new_total)
    /\ UNCHANGED <<precomputed_vad, asr_segments, precomputed_audio, sub_segments,
                   split_log, lookup_result>>

\* len([s for s in segments if s.get("meta", {}).get("source") == source])
count_source(segments, source) ==
    Cardinality({ i \in 1..Len(segments) : segments[i].meta.source = source })

\* wall-clock readings of a run, ms: time.time() - start_time at the end and
\* the part of it spent in precompute; a clock too coarse for the run reads 0
RunTimes == { [total |-> 0, precompute |-> 0], [total |-> 2000, precompute |-> 500] }

\* the dict returned from the except branch of analyze_video_audio
error_result(e, total_time) ==
    [segments |-> <<>>,
     summary  |-> [total_duration |-> 0,
                   segment_count  |-> 0,
                   error          |-> e,
                   performance    |-> [total_time_s |-> total_time, status |-> "failed"]]]

\* mutant of summary_of: the fallback count is taken from the whole list
summary_of_counting_all(segments, audio, times) ==
    [total_duration        |-> Get(audio, "duration", 0),
     segment_count         |-> Len(segments),
     asr_segments          |-> count_source(segments, "ASR_PUNCT"),
     vad_fallback_segments |-> Len(segments) - count_source(segments, "ASR_PUNCT"),
     segmentation_mode     |-> "ASR_PUNCT_FIRST",
     performance           |-> [total_time_s      |-> times.total,
                                precompute_time_s |-> times.precompute,
                                processing_time_s |-> times.total - times.precompute,
                                speedup_ratio     |-> [duration |-> Get(audio, "duration", 1000),
                                                       total_time |-> times.total]]]

\* the summary built at lines 471-485; speedup_ratio is the quotient, kept
\* as its two operands
summary_of(segments, audio, times) ==
    [total_duration        |-> Get(audio, "duration", 0),
     segment_count         |-> Len(segments),
     asr_segments          |-> count_source(segments, "ASR_PUNCT"),
     vad_fallback_segments |-> count_source(segments, "VAD_FALLBACK"),
     segmentation_mode     |-> "ASR_PUNCT_FIRST",
     performance           |-> [total_time_s      |-> times.total,
                                precompute_time_s |-> times.precompute,
                                processing_time_s |-> times.total - times.precompute,
                                speedup_ratio     |-> [duration |-> Get(audio, "duration", 1000),
                                                       total_time |-> times.total]]]

\* lines 468-489 inside the try of analyze_video_audio: the division by a
\* total_time of 0 raises ZeroDivisionError
aggregate(segments, audio, times) ==
    IF times.total = 0
    THEN [value |-> None, exception |-> "ZeroDivisionError"]
    ELSE [value |-> [segments |-> segments, summary |-> summary_of(segments, audio, times)],
          exception |-> ""]

\* the return of analyze_video_audio after _process_segments_event_driven
\* returned: the result with its summary, or the error result when building
\* the summary raised (lines 468-506)
Aggregate ==
    /\ pc = "done"
    /\ \E times \in RunTimes :
           LET outcome == aggregate(processed_segments, precomputed_audio, times)
           IN result' = IF outcome.exception # ""
                        THEN error_result(outcome.exception, times.total)
                        ELSE outcome.value
    /\ pc' = "returned"
    /\ UNCHANGED <<precomputed_vad, asr_segments, precomputed_audio, seg_idx, sub_segments,
                   sub_idx, processed_segments, total_end_s, audio_cache, video_cache,
                   split_log, sub_log, last, cleanup_log, lookup_result>>
    /\ UNCHANGED PrecomputeVars
    /\ UNCHANGED <<env, relay, subprocess, exit_status, output>>

Next ==
    \/ PrecomputeVad
    \/ PrecomputeVadFails
    \/ ProcessSegmentsEmpty
    \/ ProcessSegmentsBegin
    \/ EnterSegment
    \/ ProcessSubSegment

Spec == Init /\ [][Next]_vars

---------------------------------------------------------------------------
(* The cache on its own: EventDrivenCache driven by arbitrary calls.       *)

StoreTimes == {0, 1000, 2000}

QueryTimes == {0, 1000, 3000, 4000}

ReferenceTimes == {2000, 3000}

MaxAges == {1000, 2000}

SoundValues == {get_default_sound_features, prosody_analyze_segment(0, 1000, prosody_points)}

FaceValues == {get_default_face_features, facial_analyze_segment(0, 1000)}

CacheInit ==
    /\ pc = "cache"
    /\ precomputed_vad = None
    /\ asr_segments = <<>>
    /\ precomputed_audio = [duration |-> 0]
    /\ seg_idx = 0
    /\ sub_segments = <<>>
    /\ sub_idx = 0
    /\ processed_segments = <<>>
    /\ total_end_s = 0
    /\ audio_cache = <<>>
    /\ video_cache = <<>>
    /\ split_log = <<>>
    /\ sub_log = <<>>
    /\ last = NoOutcome
    /\ cleanup_log = <<>>
    /\ lookup_result = None
    /\ futures = NoFutures
    /\ precomputed_video = None
    /\ pause_detector = TRUE
    /\ env = LibraryEnv
    /\ subprocess = None
    /\ result = None
    /\ exit_status = None
    /\ output = NoOutput
    /\ relay = None

CacheRunVars == <<precomputed_vad, asr_segments, precomputed_audio, seg_idx, sub_segments,
                  sub_idx, processed_segments, total_end_s, split_log, sub_log, last,
                  futures, precomputed_video, pause_detector,
                  env, relay, subprocess, result, exit_status, output>>

HasRoom(cache, t) == t \in DictKeys(cache) \/ Len(cache) < MaxCacheEntries

CacheStoreAudio ==
    /\ pc \in {"cache", "store", "lookup", "cleanup"}
    /\ \E t \in StoreTimes, f \in SoundValues :
          /\ HasRoom(audio_cache, t)
          /\ audio_cache' = store_audio_features(audio_cache, t, [sound |-> f])
    /\ pc' = "store"
    /\ lookup_result' = None
    /\ cleanup_log' = <<>>
    /\ UNCHANGED video_cache
    /\ UNCHANGED CacheRunVars

CacheStoreVideo ==
    /\ pc \in {"cache", "store", "lookup", "cleanup"}
    /\ \E t \in StoreTimes, f \in FaceValues :
          /\ HasRoom(video_cache, t)
          /\ video_cache' = store_video_features(video_cache, t, [face |-> f])
    /\ pc' = "store"
    /\ lookup_result' = None
    /\ cleanup_log' = <<>>
    /\ UNCHANGED audio_cache
    /\ UNCHANGED CacheRunVars

CacheLookupAudio ==
    /\ pc \in {"cache", "store", "lookup", "cleanup"}
    /\ \E t \in QueryTimes :
          lookup_result' = [kind |-> "audio", timestamp |-> t,
                            result |-> get_interpolated_audio(audio_cache, t, prosody_points)]
    /\ pc' = "lookup"
    /\ cleanup_log' = <<>>
    /\ UNCHANGED <<audio_cache, video_cache>>
    /\ UNCHANGED CacheRunVars

CacheLookupVideo ==
    /\ pc \in {"cache", "store", "lookup", "cleanup"}
    /\ \E t \in QueryTimes :
          lookup_result' = [kind |-> "video", timestamp |-> t,
                            result |-> get_interpolated_video(video_cache, t)]
    /\ pc' = "lookup"
    /\ cleanup_log' = <<>>
    /\ UNCHANGED <<audio_cache, video_cache>>
    /\ UNCHANGED CacheRunVars

\* cleanup_old_cache(current_time, max_age); the history keeps the stores as
\* they were before the call
CacheCleanup ==
    /\ pc \in {"cache", "store", "lookup", "cleanup"}
    /\ \E current_time \in ReferenceTimes, max_age \in MaxAges :
          /\ audio_cache' = cleanup_old_cache(audio_cache, current_time, max_age)
          /\ video_cache' = cleanup_old_cache(video_cache, current_time, max_age)
          /\ cleanup_log' = <<[current_time |-> current_time, max_age |-> max_age,
                               audio_before |-> audio_cache,
                               video_before |-> video_cache]>>
    /\ pc' = "cleanup"
    /\ lookup_result' = None
    /\ UNCHANGED CacheRunVars

CacheNext ==
    \/ CacheStoreAudio
    \/ CacheStoreVideo
    \/ CacheLookupAudio
    \/ CacheLookupVideo
    \/ CacheCleanup

CacheSpec == CacheInit /\ [][CacheNext]_vars

---------------------------------------------------------------------------
(* Vocabulary of the properties.                                           *)

Mode(r) == r.meta.analysis_mode

RECURSIVE Flatten(_, _)
Flatten(seqs, i) == IF i > Len(seqs) THEN <<>> ELSE seqs[i] \o Flatten(seqs, i + 1)

\* every sub-segment the splitter has produced so far, in order
AllSubSegments == Flatten(split_log, 1)

\* how many of them the inner loop has been through
SubSegmentsDone ==
    IF pc = "sub" THEN Len(AllSubSegments) - (Len(sub_segments) - sub_idx + 1)
    ELSE Len(AllSubSegments)

SetMax(S) == CHOOSE x \in S : \A y \in S : y <= x

SetMin(S) == CHOOSE x \in S : \A y \in S : x <= y

\* result r carries the timing of sub-segment sub, as int(ms / 1000.0 * 1000)
TimedAs(r, sub) ==
    /\ r.start_ms = ms_of_s(s_of_ms(sub.start_ms))
    /\ r.end_ms = ms_of_s(s_of_ms(EndMs(sub)))

NeutralDefaults(r) ==
    /\ r.sound = get_default_sound_features
    /\ r.face = get_default_face_features

LastResult == processed_segments[Len(processed_segments)]

LastSubSegment == sub_log[Len(sub_log)].sub_seg

---------------------------------------------------------------------------
(* C1: when a run has returned, every input RawSegment has contributed at  *)
(* least one SegmentResult to the returned list.                           *)
C1_EveryRawSegmentYieldsAResult ==
    pc = "done" =>
        \A i \in 1..Len(asr_segments) :
            \E j \in 1..Len(processed_segments) : j <= Len(sub_log) /\ sub_log[j].seg = i

(* C2, as claimed: if the facial analyzer raises during the full compute   *)
(* of a sub-segment, that sub-segment's result has analysis_mode           *)
(* error_fallback and meta.source ERROR_FALLBACK.                          *)
C2_FacialFailureGivesErrorFallback ==
    last.facial = "raise" =>
        /\ Mode(LastResult) = "error_fallback"
        /\ LastResult.meta.source = "ERROR_FALLBACK"

(* C2, amended: if the facial analyzer raises during the full compute of a *)
(* sub-segment, the failure is absorbed inside the full compute: the       *)
(* result keeps analysis_mode full_compute and the sub-segment's own       *)
(* source (ASR_PUNCT if it has none), and carries the neutral default      *)
(* bundle for both sound and face.                                         *)
C2_FacialFailureAbsorbedByFullCompute ==
    last.facial = "raise" =>
        /\ Len(processed_segments) = Len(sub_log)
        /\ Mode(LastResult) = "full_compute"
        /\ LastResult.meta.source = Get(LastSubSegment, "source", "ASR_PUNCT")
        /\ NeutralDefaults(LastResult)

C2_Witness ==
    /\ last.facial = "raise"
    /\ Len(processed_segments) >= 2
    /\ Len(sub_segments) = 2

(* C3: a failure in one sub-segment stays in it: every sub-segment whose   *)
(* own processing did not fail has a result with analysis_mode             *)
(* full_compute or cached_interpolation, whatever happened to the ones     *)
(* before and after it, and the loop goes on to visit every RawSegment and *)
(* every sub-segment.                                                      *)
C3_FailureStaysInItsSubSegment ==
    /\ Len(processed_segments) = Len(sub_log)
    /\ \A j \in 1..Len(sub_log) :
           ~sub_log[j].failed =>
               Mode(processed_segments[j]) \in {"full_compute", "cached_interpolation"}
    /\ pc = "done" =>
           /\ Len(split_log) = Len(asr_segments)
           /\ Len(sub_log) = Len(AllSubSegments)

C3_Witness ==
    /\ pc = "done"
    /\ \E j \in 2..(Len(sub_log) - 1) :
           /\ sub_log[j].failed
           /\ ~sub_log[j - 1].failed
           /\ ~sub_log[j + 1].failed

(* C4: the results are exactly one per sub-segment the splitter produced:  *)
(* at every point the list holds one result for each sub-segment the loop  *)
(* has been through, in their order and with their timing, each in one of  *)
(* the three modes, and at the end their number is the number of           *)
(* sub-segments over all RawSegments.                                      *)
C4_OneResultPerSubSegment ==
    /\ Len(processed_segments) = SubSegmentsDone
    /\ \A j \in 1..Len(processed_segments) :
           /\ TimedAs(processed_segments[j], AllSubSegments[j])
           /\ Mode(processed_segments[j]) \in
                  {"full_compute", "cached_interpolation", "error_fallback"}
    /\ pc = "done" => Len(split_log) = Len(asr_segments)

C4_Witness ==
    /\ pc = "done"
    /\ Len(asr_segments) = 2
    /\ \E i \in 1..Len(split_log) : Len(split_log[i]) = 2
    /\ \E j \in 1..Len(sub_log) : sub_log[j].failed
    /\ Len(processed_segments) = 3

(* C5: results come in the order of their sub-segments: by RawSegment in   *)
(* input order, and within a split RawSegment by non-decreasing start      *)
(* time without overlap, whatever the iteration order of the timeline.     *)
C5_ResultsInSubSegmentOrder ==
    /\ Len(processed_segments) = Len(sub_log)
    /\ \A j, k \in 1..Len(sub_log) : j < k => sub_log[j].seg <= sub_log[k].seg
    /\ \A j \in 1..Len(processed_segments) :
           /\ sub_log[j].sub_seg = AllSubSegments[j]
           /\ TimedAs(processed_segments[j], AllSubSegments[j])
    /\ \A i \in 1..Len(split_log) :
           \A a, b \in 1..Len(split_log[i]) :
               a < b => /\ split_log[i][a].start_ms <= split_log[i][b].start_ms
                        /\ EndMs(split_log[i][a]) <= split_log[i][b].start_ms

\* a timeline whose pause buckets inside the span come out of chronological order
UnsortedPausesIn(seg) ==
    /\ precomputed_vad # None
    /\ LET pts == split_points_of(precomputed_vad.timeline,
                                  s_of_ms(seg.start_ms), s_of_ms(EndMs(seg)))
       IN \E a, b \in 1..Len(pts) : a < b /\ pts[a] > pts[b]

C5_Witness ==
    /\ pc = "done"
    /\ Len(asr_segments) = 2
    /\ Len(split_log[2]) = 2
    /\ UnsortedPausesIn(asr_segments[2])
    /\ Len(processed_segments) = 3

---------------------------------------------------------------------------
(* Properties of the cache, under CacheSpec.                               *)

LookupStore == IF lookup_result.kind = "audio" THEN audio_cache ELSE video_cache

NearestDistance(cache, q) == SetMin({AbsDiff(cache[i].t, q) : i \in 1..Len(cache)})

\* a hit returns the snapshot of an entry at the least distance
HitIsNearest(cache, q, r) ==
    r # None => \E i \in 1..Len(cache) :
                    /\ cache[i].f = r
                    /\ AbsDiff(cache[i].t, q) = NearestDistance(cache, q)

(* C7, as claimed: a lookup misses exactly when the store is empty or the  *)
(* nearest stored timestamp is further than 2.0 s from the query; at a     *)
(* distance of at most 2.0 s, exactly 2.0 s included, the nearest entry is *)
(* returned.                                                               *)
C7_LookupWindowInclusive ==
    pc = "lookup" =>
        LET cache == LookupStore
            q == lookup_result.timestamp
            r == lookup_result.result
        IN /\ (r = None) <=> (cache = <<>> \/ NearestDistance(cache, q) > cache_valid_s)
           /\ HitIsNearest(cache, q, r)

(* C7, amended: a lookup misses exactly when the store is empty or the     *)
(* nearest stored timestamp is 2.0 s or more from the query; at a distance *)
(* strictly below 2.0 s the snapshot of an entry at the least distance is  *)
(* returned, and an entry at exactly 2.0 s is a miss.                      *)
C7_LookupWindowStrict ==
    pc = "lookup" =>
        LET cache == LookupStore
            q == lookup_result.timestamp
            r == lookup_result.result
        IN /\ (r = None) <=> (cache = <<>> \/ NearestDistance(cache, q) >= cache_valid_s)
           /\ HitIsNearest(cache, q, r)

\* a lookup on a store of two entries, the nearer one exactly 2.0 s away
C7_Witness ==
    /\ pc = "lookup"
    /\ Len(LookupStore) = 2
    /\ NearestDistance(LookupStore, lookup_result.timestamp) = cache_valid_s
    /\ lookup_result.result = None

\* after is before without the entries older than cutoff, nothing added or altered
Pruned(before, after, cutoff) ==
    /\ DictKeys(after) = {k \in DictKeys(before) : k >= cutoff}
    /\ Len(after) = Cardinality(DictKeys(after))
    /\ \A k \in DictKeys(after) : after[DictAt(after, k)].f = before[DictAt(before, k)].f

(* C8: cleanup(reference_time, max_age) removes from each store exactly    *)
(* the entries with timestamp < reference_time - max_age, keeps the ones   *)
(* at or after the cutoff, and adds or alters none.                        *)
C8_CleanupRemovesExactlyOlder ==
    pc = "cleanup" =>
        LET call == cleanup_log[1]
            cutoff == call.current_time - call.max_age
        IN /\ Pruned(call.audio_before, audio_cache, cutoff)
           /\ Pruned(call.video_before, video_cache, cutoff)

\* a cleanup that kept an audio entry exactly at the cutoff and removed an
\* older video entry, the audio store holding nothing that old
C8_Witness ==
    /\ pc = "cleanup"
    /\ LET call == cleanup_log[1]
           cutoff == call.current_time - call.max_age
       IN /\ cutoff \in DictKeys(audio_cache)
          /\ \A k \in DictKeys(call.audio_before) : k >= cutoff
          /\ \E k \in DictKeys(call.video_before) : k < cutoff
          /\ video_cache # <<>>

---------------------------------------------------------------------------
(* C9: cleanup is called once per run, after the last sub-segment: while   *)
(* the loop runs no cleanup has been called and every entry written by a   *)
(* full compute is still in both stores; when the run has returned,        *)
(* cleanup has been called exactly once, failures or not.                  *)
C9_CleanupOnceAfterLastSubSegment ==
    /\ pc \in {"precompute", "ready", "seg", "sub"} =>
           /\ cleanup_log = <<>>
           /\ Len(processed_segments) = Len(sub_log)
           /\ \A j \in 1..Len(sub_log) :
                  Mode(processed_segments[j]) = "full_compute" =>
                      /\ s_of_ms(sub_log[j].sub_seg.start_ms) \in DictKeys(audio_cache)
                      /\ s_of_ms(sub_log[j].sub_seg.start_ms) \in DictKeys(video_cache)
    /\ pc = "done" => Len(cleanup_log) = 1

\* a finished run with a failed sub-segment whose cleanup evicted an entry
C9_Witness ==
    /\ pc = "done"
    /\ Len(cleanup_log) = 1
    /\ \E j \in 1..Len(sub_log) : sub_log[j].failed
    /\ \E j \in 1..Len(sub_log) :
           /\ Mode(processed_segments[j]) = "full_compute"
           /\ s_of_ms(sub_log[j].sub_seg.start_ms) \notin DictKeys(audio_cache)

\* the end times, in seconds, of the RawSegments and of the processed sub-segments
RunEndTimes ==
    {s_of_ms(EndMs(asr_segments[i])) : i \in 1..Len(asr_segments)}
    \cup {s_of_ms(EndMs(sub_log[j].sub_seg)) : j \in 1..Len(sub_log)}

(* C10: the reference time of the cleanup is the maximum end time over the *)
(* RawSegments and sub-segments of the run; on an empty RawSegment list    *)
(* the result list is empty and cleanup runs with the precomputed source   *)
(* duration as reference.                                                  *)
C10_CleanupReferenceIsMaxEnd ==
    pc = "done" =>
        /\ Len(cleanup_log) = 1
        /\ cleanup_log[1].max_age = cache_max_age_s
        /\ IF asr_segments = <<>>
           THEN /\ processed_segments = <<>>
                /\ cleanup_log[1].current_time = precomputed_audio.duration
           ELSE cleanup_log[1].current_time = SetMax(RunEndTimes)

\* a finished run whose last RawSegment does not end last
C10_Witness ==
    /\ pc = "done"
    /\ Len(asr_segments) = 2
    /\ EndMs(asr_segments[1]) > EndMs(asr_segments[2])
    /\ cleanup_log[1].current_time = s_of_ms(EndMs(asr_segments[1]))

---------------------------------------------------------------------------
\* the cache key of the j-th processed sub-segment: its start time in seconds
KeyOf(j) == s_of_ms(sub_log[j].sub_seg.start_ms)

(* C11: after a completed run with maximum observed end time T and max_age *)
(* A, the entry written by a full-compute sub-segment at start time t is   *)
(* absent from both stores if t < T - A and present in both otherwise.     *)
C11_EntriesAfterRunFollowCutoff ==
    (pc = "done" /\ asr_segments # <<>>) =>
        LET T == cleanup_log[1].current_time
            A == cleanup_log[1].max_age
        IN /\ Len(processed_segments) = Len(sub_log)
           /\ T = SetMax(RunEndTimes)
           /\ \A j \in 1..Len(sub_log) :
                  Mode(processed_segments[j]) = "full_compute" =>
                      IF KeyOf(j) < T - A
                      THEN /\ KeyOf(j) \notin DictKeys(audio_cache)
                           /\ KeyOf(j) \notin DictKeys(video_cache)
                      ELSE /\ KeyOf(j) \in DictKeys(audio_cache)
                           /\ KeyOf(j) \in DictKeys(video_cache)

\* a finished run with a full-compute entry older than the cutoff and one
\* exactly at the cutoff
C11_Witness ==
    /\ pc = "done"
    /\ Len(sub_log) = Len(processed_segments)
    /\ LET cutoff == cleanup_log[1].current_time - cleanup_log[1].max_age
       IN /\ \E j \in 1..Len(sub_log) :
                 /\ Mode(processed_segments[j]) = "full_compute"
                 /\ KeyOf(j) < cutoff
                 /\ KeyOf(j) \notin DictKeys(audio_cache) \cup DictKeys(video_cache)
          /\ \E k \in 1..Len(sub_log) :
                 /\ Mode(processed_segments[k]) = "full_compute"
                 /\ KeyOf(k) = cutoff
                 /\ KeyOf(k) \in DictKeys(audio_cache) \cap DictKeys(video_cache)

---------------------------------------------------------------------------
\* RawSegment seg goes to the splitter, its span holds pause buckets, and
\* the loop over them accepts none
NoSplitPointSurvives(seg) ==
    LET start_s == s_of_ms(Get(seg, "start_ms", 0))
        end_s == s_of_ms(Get(seg, "end_ms", Get(seg, "start_ms", 0) + default_end_ms))
    IN /\ needs_split(seg, start_s, end_s)
       /\ precomputed_vad # None
       /\ LET split_points == split_points_of(precomputed_vad.timeline, start_s, end_s)
          IN /\ split_points # <<>>
             /\ split_loop(split_points, 1, start_s, <<>>, seg)[1] = <<>>

(* C12: when pause buckets lie inside the span of a RawSegment sent to the *)
(* splitter but none survives the 1.0 s filter, the splitter returns the   *)
(* original segment unchanged as a single-element list (same start_ms,     *)
(* end_ms, text and source).                                               *)
C12_UnsplitWhenNoPointSurvives ==
    \A i \in 1..Len(split_log) :
        NoSplitPointSurvives(asr_segments[i]) => split_log[i] = <<asr_segments[i]>>

---------------------------------------------------------------------------
DurationMs(sub) == EndMs(sub) - sub.start_ms

(* C13: every sub-segment the splitter returns, except possibly the final  *)
(* one of its list, has a duration of at least 1.0 s.                      *)
C13_OnlyFinalSubSegmentMayBeShort ==
    \A i \in 1..Len(split_log) :
        \A a \in 1..(Len(split_log[i]) - 1) :
            DurationMs(split_log[i][a]) >= min_sub_segment_s

\* a split in two where the filter discarded a pause bucket of the span
C13_Witness ==
    \E i \in 1..Len(split_log) :
        /\ Len(split_log[i]) = 2
        /\ precomputed_vad # None
        /\ Len(split_points_of(precomputed_vad.timeline,
                               s_of_ms(asr_segments[i].start_ms),
                               s_of_ms(EndMs(asr_segments[i])))) >= 2
        /\ DurationMs(split_log[i][1]) >= min_sub_segment_s

---------------------------------------------------------------------------
\* the RawSegment the last processed sub-segment came from
LastRawSegment == asr_segments[sub_log[Len(sub_log)].seg]

\* the test of lines 668-669 on a RawSegment
SentToSplitter(seg) ==
    needs_split(seg, s_of_ms(Get(seg, "start_ms", 0)),
                s_of_ms(Get(seg, "end_ms", Get(seg, "start_ms", 0) + default_end_ms)))

\* no provider call of the last processed sub-segment raised in the trigger
\* decision or in an analyzer
LastProvidersSucceeded ==
    /\ last.trigger \in {"true", "false"}
    /\ last.prosody # "raise"
    /\ last.facial # "raise"

(* C14: a RawSegment within both limits (at most 12.0 s, at most 30        *)
(* characters) is not sent to the splitter, is passed through as exactly   *)
(* one sub-segment and, when no provider fails, yields exactly one         *)
(* SegmentResult carrying the RawSegment's start_ms and end_ms, with       *)
(* analysis_mode full_compute or cached_interpolation.                     *)
C14_WithinLimitsOneResultSameTiming ==
    /\ \A i \in 1..Len(split_log) :
           ~SentToSplitter(asr_segments[i]) => split_log[i] = <<asr_segments[i]>>
    /\ (sub_log # <<>> /\ ~SentToSplitter(LastRawSegment) /\ LastProvidersSucceeded) =>
           /\ Len(processed_segments) = Len(sub_log)
           /\ Cardinality({j \in 1..Len(sub_log) :
                               sub_log[j].seg = sub_log[Len(sub_log)].seg}) = 1
           /\ Mode(LastResult) \in {"full_compute", "cached_interpolation"}
           /\ LastResult.start_ms = LastRawSegment.start_ms
           /\ LastResult.end_ms = EndMs(LastRawSegment)

---------------------------------------------------------------------------
\* RawSegment seg is longer than max_segment_s and the splitter finds no
\* timeline, or no pause bucket of the timeline inside its span
LongWithoutPause(seg) ==
    /\ s_of_ms(EndMs(seg)) - s_of_ms(seg.start_ms) > max_segment_s
    /\ \/ precomputed_vad = None
       \/ split_points_of(precomputed_vad.timeline,
                          s_of_ms(seg.start_ms), s_of_ms(EndMs(seg))) = <<>>

\* the indices of the results that came from RawSegment i
ResultsOf(i) == {j \in 1..Len(sub_log) : sub_log[j].seg = i}

(* C15: a RawSegment longer than 12 s whose span holds no pause bucket of  *)
(* the VAD timeline, or for which there is no timeline, yields exactly one *)
(* unsplit SegmentResult spanning the full original range: its start_ms    *)
(* and end_ms are the RawSegment's.                                        *)
C15_LongWithoutPauseOneFullSpanResult ==
    pc = "done" =>
        \A i \in 1..Len(asr_segments) :
            LongWithoutPause(asr_segments[i]) =>
                /\ split_log[i] = <<asr_segments[i]>>
                /\ Len(processed_segments) = Len(sub_log)
                /\ Cardinality(ResultsOf(i)) = 1
                /\ \A j \in ResultsOf(i) :
                       /\ processed_segments[j].start_ms = asr_segments[i].start_ms
                       /\ processed_segments[j].end_ms = EndMs(asr_segments[i])

---------------------------------------------------------------------------
(* One sub-segment on its own: the body of the inner loop run once on      *)
(* stores left in an arbitrary state by earlier sub-segments.              *)

StepTimes == {1000, 2000}

StepSubSegs ==
    { [text |-> AsrText(30), start_ms |-> 1000, end_ms |-> 3000,
       source |-> "ASR_PUNCT", punct |-> "."],
      [text |-> AsrText(31), start_ms |-> 3000, end_ms |-> 5000,
       source |-> "VAD_SPLIT", punct |-> "."] }

StepInit ==
    /\ pc = "step_init"
    /\ precomputed_vad = None
    /\ asr_segments = <<>>
    /\ precomputed_audio = [duration |-> 0]
    /\ seg_idx = 0
    /\ sub_segments = <<>>
    /\ sub_idx = 0
    /\ processed_segments = <<>>
    /\ total_end_s = 0
    /\ audio_cache = <<>>
    /\ video_cache = <<>>
    /\ split_log = <<>>
    /\ sub_log = <<>>
    /\ last = NoOutcome
    /\ cleanup_log = <<>>
    /\ lookup_result = None
    /\ futures = NoFutures
    /\ precomputed_video = None
    /\ pause_detector = TRUE
    /\ env = LibraryEnv
    /\ subprocess = None
    /\ result = None
    /\ exit_status = None
    /\ output = NoOutput
    /\ relay = None

StepRunVars == <<precomputed_vad, asr_segments, precomputed_audio, seg_idx, sub_segments,
                 sub_idx, total_end_s, split_log, sub_log, cleanup_log,
                 futures, precomputed_video, pause_detector,
                 env, relay, subprocess, result, exit_status, output>>

\* an earlier store_audio_features
StepSeedAudio ==
    /\ pc \in {"step_init", "seeded"}
    /\ \E t \in StepTimes, f \in SoundValues :
          /\ HasRoom(audio_cache, t)
          /\ audio_cache' = store_audio_features(audio_cache, t, [sound |-> f])
    /\ pc' = "seeded"
    /\ UNCHANGED <<video_cache, processed_segments, last, lookup_result>>
    /\ UNCHANGED StepRunVars

\* an earlier store_video_features
StepSeedVideo ==
    /\ pc \in {"step_init", "seeded"}
    /\ \E t \in StepTimes, f \in FaceValues :
          /\ HasRoom(video_cache, t)
          /\ video_cache' = store_video_features(video_cache, t, [face |-> f])
    /\ pc' = "seeded"
    /\ UNCHANGED <<audio_cache, processed_segments, last, lookup_result>>
    /\ UNCHANGED StepRunVars

\* lines 682-711 for one sub-segment; the history keeps the events, the
\* trigger decision and the stores as they were before
StepProcess ==
    /\ pc \in {"step_init", "seeded"}
    /\ \E sub_seg \in StepSubSegs, o \in ProviderOutcomes :
          LET sub_start_s == s_of_ms(sub_seg.start_ms)
              sub_end_s == s_of_ms(sub_seg.end_ms)
              events == detect_events_in_segment(o.audio_out, o.video_out)
              r == process_sub_segment(sub_seg, sub_start_s, sub_end_s,
                                       audio_cache, video_cache, events,
                                       o.trig_raises, o.coin, o.prosody_ok, o.facial_ok)
          IN /\ processed_segments' = r.emitted
             /\ audio_cache' = r.audio
             /\ video_cache' = r.video
             /\ last' = outcome_of(events, o.trig_raises, o.coin, o.prosody_ok, o.facial_ok)
             /\ lookup_result' =
                    [kind |-> "step", sub_seg |-> sub_seg, events |-> events,
                     audio_out |-> o.audio_out, video_out |-> o.video_out,
                     trigger_info |-> IF o.trig_raises THEN None
                                      ELSE should_trigger_analysis(events, o.coin),
                     audio_before |-> audio_cache, video_before |-> video_cache]
    /\ pc' = "stepped"
    /\ UNCHANGED StepRunVars

StepNext ==
    \/ StepSeedAudio
    \/ StepSeedVideo
    \/ StepProcess

StepSpec == StepInit /\ [][StepNext]_vars

\* the sub-segment of the step, its cache key and its result
StepSubSeg == lookup_result.sub_seg

StepKey == s_of_ms(lookup_result.sub_seg.start_ms)

StepResult == processed_segments[1]

\* the ms span handed to the analyzers: int(sub_start_s * 1000), int(sub_end_s * 1000)
StepStartMs == ms_of_s(s_of_ms(lookup_result.sub_seg.start_ms))

StepEndMs == ms_of_s(s_of_ms(lookup_result.sub_seg.end_ms))

\* store after is store before with value stored under key, an entry
\* already at key replaced where it stood
StoredUnder(before, after, key, value) ==
    /\ DictKeys(after) = DictKeys(before) \cup {key}
    /\ Len(after) = Cardinality(DictKeys(after))
    /\ after[DictAt(after, key)].f = value
    /\ \A k \in DictKeys(before) \ {key} :
           after[DictAt(after, k)].f = before[DictAt(before, k)].f

(* C16: exactly when the trigger decision of a sub-segment is true the     *)
(* sub-segment takes the full-compute path: the analyzers are called over  *)
(* its ms span (the facial one unless the prosody one raised), the result  *)
(* is tagged full_compute, and its sound and face bundles are stored in    *)
(* the audio and the video store under the sub-segment's start time,       *)
(* replacing an entry already at that key.                                 *)
C16_TriggerMeansFullComputeAndStore ==
    pc = "stepped" =>
        /\ Len(processed_segments) = 1
        /\ (last.trigger = "true") <=> (Mode(StepResult) = "full_compute")
        /\ (last.trigger = "true") <=>
               (lookup_result.trigger_info # None
                    /\ lookup_result.trigger_info.should_trigger)
        /\ last.trigger = "true" =>
               /\ last.prosody \in {"ok", "raise"}
               /\ last.prosody = "ok" => last.facial \in {"ok", "raise"}
               /\ (last.prosody = "ok" /\ last.facial = "ok") =>
                      /\ StepResult.sound =
                             prosody_analyze_segment(StepStartMs, StepEndMs, prosody_points)
                      /\ StepResult.face = facial_analyze_segment(StepStartMs, StepEndMs)
               /\ StoredUnder(lookup_result.audio_before, audio_cache, StepKey,
                              StepResult.sound)
               /\ StoredUnder(lookup_result.video_before, video_cache, StepKey,
                              StepResult.face)
        /\ last.trigger # "true" =>
               /\ audio_cache = lookup_result.audio_before
               /\ video_cache = lookup_result.video_before

\* a full compute that replaced the entries both stores held at its key
C16_Witness ==
    /\ pc = "stepped"
    /\ last.trigger = "true"
    /\ last.facial = "ok"
    /\ StepKey \in DictKeys(lookup_result.audio_before)
    /\ StepKey \in DictKeys(lookup_result.video_before)
    /\ lookup_result.audio_before[DictAt(lookup_result.audio_before, StepKey)].f
           # StepResult.sound
    /\ Len(audio_cache) = 2
    /\ audio_cache[DictAt(audio_cache, StepKey)].f = StepResult.sound
    /\ video_cache[DictAt(video_cache, StepKey)].f = StepResult.face

\* what the cached path puts in a result for one modality
FromStore(cache, key, value, default) ==
    IF cache = <<>> \/ NearestDistance(cache, key) >= cache_valid_s
    THEN value = default
    ELSE \E i \in 1..Len(cache) :
             /\ cache[i].f = value
             /\ AbsDiff(cache[i].t, key) = NearestDistance(cache, key)

(* C17: when the trigger decision of a sub-segment is false no analyzer is *)
(* called, the stores are left as they are, and the result is tagged       *)
(* cached_interpolation; for each modality on its own it carries the       *)
(* snapshot of the entry nearest to the sub-segment's start time when the  *)
(* lookup hits and the neutral default bundle when it misses.              *)
C17_NoTriggerMeansCachedPerModality ==
    (pc = "stepped" /\ last.trigger = "false") =>
        /\ Len(processed_segments) = 1
        /\ last.prosody = "none"
        /\ last.facial = "none"
        /\ Mode(StepResult) = "cached_interpolation"
        /\ audio_cache = lookup_result.audio_before
        /\ video_cache = lookup_result.video_before
        /\ FromStore(audio_cache, StepKey, StepResult.sound, get_default_sound_features)
        /\ FromStore(video_cache, StepKey, StepResult.face, get_default_face_features)

\* a cached result with an analyzed sound snapshot from the audio store and
\* the default face bundle, the video store holding only an entry too far away
C17_Witness ==
    /\ pc = "stepped"
    /\ last.trigger = "false"
    /\ StepResult.sound = prosody_analyze_segment(0, 1000, prosody_points)
    /\ video_cache # <<>>
    /\ NearestDistance(video_cache, StepKey) = cache_valid_s
    /\ StepResult.face = get_default_face_features

(* C18: the trigger policy indicates recompute whenever the events of the  *)
(* window are not empty: for n >= 1 events should_trigger is true and the  *)
(* reasons hold the event-count tag for n, whatever the no-event choice    *)
(* would have been, and the sub-segment takes the full-compute path.       *)
C18_EventsAlwaysTrigger ==
    (pc = "stepped" /\ Len(lookup_result.events) >= 1
         /\ lookup_result.trigger_info # None) =>
        /\ \A coin \in BOOLEAN :
               LET info == should_trigger_analysis(lookup_result.events, coin)
               IN /\ info.should_trigger
                  /\ info.reasons = <<[tag |-> "detected_events",
                                       n |-> Len(lookup_result.events)]>>
                  /\ info = lookup_result.trigger_info
        /\ last.trigger = "true"
        /\ Len(processed_segments) = 1
        /\ Mode(StepResult) = "full_compute"

\* a sub-segment with a single detected event, fully computed
C18_Witness ==
    /\ pc = "stepped"
    /\ Len(lookup_result.events) = 1
    /\ lookup_result.trigger_info # None
    /\ lookup_result.trigger_info.should_trigger
    /\ Mode(StepResult) = "full_compute"

---------------------------------------------------------------------------
(* The precompute phase of analyze_video_audio in parallel mode: three     *)
(* tasks on a pool of three workers, the orchestrator waiting for their    *)
(* results (lines 440-466).  A task's outcome is [value, exception]: what  *)
(* future.result() returns, or that it raises.                             *)

Tasks == {"audio", "video", "asr"}

\* the dict _precompute_audio returns from its except branch
default_audio_features ==
    [duration |-> default_duration_s, features |-> "empty", error |-> TRUE]

\* the dict _precompute_video returns from its except branch
default_video_features ==
    [face_cache |-> <<>>, fps |-> default_fps, total_frames |-> 0, duration |-> 0,
     error |-> TRUE]

\* _precompute_audio: raises says whether a call of its try body raised
precompute_audio(raises, duration) ==
    IF raises
    THEN [value |-> default_audio_features, exception |-> FALSE]
    ELSE [value |-> [duration |-> duration, features |-> "lightweight_computed"],
          exception |-> FALSE]

\* what the capture reports and the face sampling finds (face_cache: the
\* sampled timestamps with a face); an fps of 0 is a capture without a rate
VideoInputs ==
    { [fps |-> 25, total_frames |-> 50, face_cache |-> <<>>],
      [fps |-> 25, total_frames |-> 50, face_cache |-> <<0, 1000>>],
      [fps |-> 0, total_frames |-> 0, face_cache |-> <<>>] }

\* the dict the try body of _precompute_video builds
video_features(video) ==
    [face_cache |-> video.face_cache, fps |-> video.fps,
     total_frames |-> video.total_frames,
     duration |-> IF video.fps > 0 THEN (video.total_frames * 1000) \div video.fps ELSE 0]

\* mutant of precompute_video: the except branch lets the exception through
precompute_video_reraises(raises, video) ==
    IF raises
    THEN [value |-> None, exception |-> TRUE]
    ELSE [value |-> video_features(video), exception |-> FALSE]

\* _precompute_video: raises says whether a call of its try body raised
precompute_video(raises, video) ==
    IF raises
    THEN [value |-> default_video_features, exception |-> FALSE]
    ELSE [value |-> video_features(video), exception |-> FALSE]

\* mutant of vad_fallback_segments: the segments come out last interval first
RECURSIVE vad_fallback_segments_reversed(_, _)
vad_fallback_segments_reversed(speech_segments, i) ==
    IF i > Len(speech_segments) THEN <<>>
    ELSE vad_fallback_segments_reversed(speech_segments, i + 1)
         \o <<[text |-> [content |-> "speech segment", len |-> 5],
               start_ms |-> ms_of_s(speech_segments[i].start_time),
               end_ms |-> ms_of_s(speech_segments[i].end_time),
               source |-> "VAD_FALLBACK"]>>

\* segments of _fallback_vad_segmentation, one per speech segment
RECURSIVE vad_fallback_segments(_, _)
vad_fallback_segments(speech_segments, i) ==
    IF i > Len(speech_segments) THEN <<>>
    ELSE <<[text |-> [content |-> "speech segment", len |-> 5],
            start_ms |-> ms_of_s(speech_segments[i].start_time),
            end_ms |-> ms_of_s(speech_segments[i].end_time),
            source |-> "VAD_FALLBACK"]>>
         \o vad_fallback_segments(speech_segments, i + 1)

\* _fallback_vad_segmentation: duration is what _get_audio_duration returns
\* where it is called
fallback_vad_segmentation(detector_raises, speech_segments, duration) ==
    IF ~pause_detector
    THEN [value |-> <<[text |-> [content |-> "unrecognised audio", len |-> 18],
                       start_ms |-> 0, end_ms |-> ms_of_s(duration),
                       source |-> "FALLBACK"]>>,
          exception |-> FALSE]
    ELSE IF detector_raises
    THEN [value |-> <<[text |-> [content |-> "whole audio", len |-> 11],
                       start_ms |-> 0, end_ms |-> ms_of_s(duration),
                       source |-> "ULTIMATE_FALLBACK"]>>,
          exception |-> FALSE]
    ELSE [value |-> vad_fallback_segments(speech_segments, 1), exception |-> FALSE]

\* what the transcription provider returns when it succeeds
AsrResults ==
    { <<>>,
      <<[text |-> AsrText(30), start_ms |-> 0, end_ms |-> 3000,
         source |-> "ASR_PUNCT", punct |-> "."]>> }

FallbackSources == {"VAD_FALLBACK", "ULTIMATE_FALLBACK", "FALLBACK"}

\* speech_segments the detector returns to the fallback, and the durations
\* _get_audio_duration returns to it
FallbackSpeechInputs == SpeechInputs \cup { <<Interval(0, 1001), Interval(2000, 3000)>> }

FallbackDurations == Durations \cup {16002}

\* the future of task completes with outcome; raised tells whether the
\* task's own handler had to step in
Complete(task, outcome, raised) ==
    [futures EXCEPT ![task] = [state |-> "done", result |-> outcome.value,
                               raised |-> raised, exception |-> outcome.exception],
                    !.order = Append(@, task)]

PrecomputeRunVars == <<seg_idx, sub_segments, sub_idx, processed_segments, total_end_s,
                       audio_cache, video_cache, split_log, sub_log, last, cleanup_log,
                       lookup_result, pause_detector,
                       env, relay, subprocess, result, exit_status, output>>

PrecomputeInit ==
    /\ pc = "submit_audio"
    /\ precomputed_vad = None
    /\ asr_segments = <<>>
    /\ precomputed_audio = None
    /\ seg_idx = 0
    /\ sub_segments = <<>>
    /\ sub_idx = 0
    /\ processed_segments = <<>>
    /\ total_end_s = 0
    /\ audio_cache = <<>>
    /\ video_cache = <<>>
    /\ split_log = <<>>
    /\ sub_log = <<>>
    /\ last = NoOutcome
    /\ cleanup_log = <<>>
    /\ lookup_result = None
    /\ futures = NoFutures
    /\ precomputed_video = None
    /\ pause_detector \in BOOLEAN
    /\ env = LibraryEnv
    /\ subprocess = None
    /\ result = None
    /\ exit_status = None
    /\ output = NoOutput
    /\ relay = None

\* executor.submit, lines 444-446
Submit(task, next_pc) ==
    /\ futures' = [futures EXCEPT ![task].state = "pending"]
    /\ pc' = next_pc
    /\ UNCHANGED <<precomputed_vad, asr_segments, precomputed_audio, precomputed_video>>
    /\ UNCHANGED PrecomputeRunVars

SubmitAudio == pc = "submit_audio" /\ Submit("audio", "submit_video")

SubmitVideo == pc = "submit_video" /\ Submit("video", "submit_asr")

SubmitAsr == pc = "submit_asr" /\ Submit("asr", "await_audio")

\* _precompute_audio up to and including _precompute_vad (lines 512-519):
\* the feature precompute raises and the task ends with the default; or,
\* with a pause detector, the VAD precompute sets self._precomputed_vad; or
\* there is no pause detector, or its failure is absorbed by _precompute_vad
AudioTaskStart ==
    /\ futures.audio.state = "pending"
    /\ \/ /\ futures' = Complete("audio", precompute_audio(TRUE, default_duration_s), TRUE)
          /\ UNCHANGED precomputed_vad
       \/ /\ pause_detector
          /\ futures' = [futures EXCEPT !.audio.state = "running"]
          /\ \E speech \in SpeechInputs :
                 precomputed_vad' = [timeline |-> build_vad_timeline(speech, <<>>)]
       \/ /\ futures' = [futures EXCEPT !.audio.state = "running"]
          /\ UNCHANGED precomputed_vad
    /\ UNCHANGED <<pc, asr_segments, precomputed_audio, precomputed_video>>
    /\ UNCHANGED PrecomputeRunVars

\* the rest of _precompute_audio (lines 521-540): the duration and the raw
\* audio load, which may raise
AudioTaskFinish ==
    /\ futures.audio.state = "running"
    /\ \E raises \in BOOLEAN, d \in Durations :
           /\ raises => d = default_duration_s
           /\ futures' = Complete("audio", precompute_audio(raises, d), raises)
    /\ UNCHANGED <<pc, precomputed_vad, asr_segments, precomputed_audio, precomputed_video>>
    /\ UNCHANGED PrecomputeRunVars

\* _precompute_video (lines 542-595)
VideoTask ==
    /\ futures.video.state = "pending"
    /\ \E raises \in BOOLEAN, video \in VideoInputs :
           /\ raises => video.fps = 0
           /\ futures' = Complete("video", precompute_video(raises, video), raises)
    /\ UNCHANGED <<pc, precomputed_vad, asr_segments, precomputed_audio, precomputed_video>>
    /\ UNCHANGED PrecomputeRunVars

\* _run_asr_segmentation (lines 623-633): the provider returns, or raises
\* and the task goes on to the fallback
AsrTaskTranscribe ==
    /\ futures.asr.state = "pending"
    /\ \/ \E segments \in AsrResults :
              futures' = Complete("asr", [value |-> segments, exception |-> FALSE], FALSE)
       \/ futures' = [futures EXCEPT !.asr.state = "fallback"]
    /\ UNCHANGED <<pc, precomputed_vad, asr_segments, precomputed_audio, precomputed_video>>
    /\ UNCHANGED PrecomputeRunVars

\* mutant of AsrTaskFallback: the fallback keeps the timeline of the speech
\* it was given in self._precomputed_vad
AsrTaskFallback_writing_vad ==
    /\ futures.asr.state = "fallback"
    /\ \E detector_raises \in BOOLEAN, speech \in FallbackSpeechInputs, d \in FallbackDurations :
           /\ detector_raises => pause_detector /\ speech = <<>>
           /\ (pause_detector /\ ~detector_raises) => d = default_duration_s
           /\ ~pause_detector => speech = <<>>
           /\ futures' = Complete("asr",
                                  fallback_vad_segmentation(detector_raises, speech, d),
                                  TRUE)
           /\ lookup_result' = [kind |-> "fallback", detector_raises |-> detector_raises,
                                speech_segments |-> speech, duration |-> d]
           /\ precomputed_vad' = [timeline |-> build_vad_timeline(speech, <<>>)]
    /\ UNCHANGED <<pc, asr_segments, precomputed_audio, precomputed_video>>
    /\ UNCHANGED <<seg_idx, sub_segments, sub_idx, processed_segments, total_end_s,
                   audio_cache, video_cache, split_log, sub_log, last, cleanup_log,
                   pause_detector, env, relay, subprocess, result, exit_status, output>>

\* _fallback_vad_segmentation (lines 1063-1100); the history keeps what the
\* detector and _get_audio_duration gave it
AsrTaskFallback ==
    /\ futures.asr.state = "fallback"
    /\ \E detector_raises \in BOOLEAN, speech \in FallbackSpeechInputs, d \in FallbackDurations :
           /\ detector_raises => pause_detector /\ speech = <<>>
           /\ (pause_detector /\ ~detector_raises) => d = default_duration_s
           /\ ~pause_detector => speech = <<>>
           /\ futures' = Complete("asr",
                                  fallback_vad_segmentation(detector_raises, speech, d),
                                  TRUE)
           /\ lookup_result' = [kind |-> "fallback", detector_raises |-> detector_raises,
                                speech_segments |-> speech, duration |-> d]
    /\ UNCHANGED <<pc, precomputed_vad, asr_segments, precomputed_audio, precomputed_video>>
    /\ UNCHANGED <<seg_idx, sub_segments, sub_idx, processed_segments, total_end_s,
                   audio_cache, video_cache, split_log, sub_log, last, cleanup_log,
                   pause_detector, env, relay, subprocess, result, exit_status, output>>

\* future.result(): blocks until the task is done; an exception of the task
\* is raised again in the orchestrator, which ends in its except (line 491)
Await(task, next_pc) ==
    /\ futures[task].state = "done"
    /\ pc' = IF futures[task].exception THEN "failed" ELSE next_pc
    /\ UNCHANGED <<futures, precomputed_vad>>
    /\ UNCHANGED PrecomputeRunVars

\* precomputed_audio = audio_future.result()
AwaitAudio ==
    /\ pc = "await_audio"
    /\ Await("audio", "await_video")
    /\ precomputed_audio' = futures.audio.result
    /\ UNCHANGED <<asr_segments, precomputed_video>>

\* precomputed_video = video_future.result()
AwaitVideo ==
    /\ pc = "await_video"
    /\ Await("video", "await_asr")
    /\ precomputed_video' = futures.video.result
    /\ UNCHANGED <<asr_segments, precomputed_audio>>

\* mutant of AwaitAsr: the orchestrator goes on without the transcription
AwaitAsr_without_waiting ==
    /\ pc = "await_asr"
    /\ pc' = "joined"
    /\ asr_segments' = IF futures.asr.state = "done" THEN futures.asr.result ELSE <<>>
    /\ UNCHANGED <<futures, precomputed_vad, precomputed_audio, precomputed_video>>
    /\ UNCHANGED PrecomputeRunVars

\* asr_segments = asr_future.result(), and the exit of the with block
AwaitAsr ==
    /\ pc = "await_asr"
    /\ Await("asr", "joined")
    /\ asr_segments' = futures.asr.result
    /\ UNCHANGED <<precomputed_audio, precomputed_video>>

\* the call of _process_segments_event_driven (line 462)
BeginProcessing ==
    /\ pc = "joined"
    /\ pc' = "processing"
    /\ UNCHANGED <<futures, precomputed_vad, asr_segments, precomputed_audio,
                   precomputed_video>>
    /\ UNCHANGED PrecomputeRunVars

PrecomputeNext ==
    \/ SubmitAudio
    \/ SubmitVideo
    \/ SubmitAsr
    \/ AudioTaskStart
    \/ AudioTaskFinish
    \/ VideoTask
    \/ AsrTaskTranscribe
    \/ AsrTaskFallback
    \/ AwaitAudio
    \/ AwaitVideo
    \/ AwaitAsr
    \/ BeginProcessing

PrecomputeSpec == PrecomputeInit /\ [][PrecomputeNext]_vars

AllTasksDone == \A t \in Tasks : futures[t].state = "done"

\* nothing of the processing phase has happened
NothingProcessed ==
    /\ processed_segments = <<>>
    /\ sub_log = <<>>
    /\ audio_cache = <<>>
    /\ video_cache = <<>>
    /\ cleanup_log = <<>>

(* C19: in parallel mode the processing of sub-segments starts only after  *)
(* all three precompute tasks have completed, in whatever order they       *)
(* complete; until then nothing has been processed and the results of the  *)
(* tasks that completed are held in their futures as delivered.            *)
C19_BarrierBeforeProcessing ==
    /\ pc \in {"joined", "processing"} =>
           /\ AllTasksDone
           /\ precomputed_audio = futures.audio.result
           /\ precomputed_video = futures.video.result
           /\ asr_segments = futures.asr.result
    /\ pc \notin {"joined", "processing"} => NothingProcessed
    /\ Len(futures.order) = Cardinality({t \in Tasks : futures[t].state = "done"})

\* processing begins after the task awaited first completed last
C19_Witness ==
    /\ pc = "processing"
    /\ futures.order = <<"asr", "video", "audio">>
    /\ AllTasksDone

---------------------------------------------------------------------------
(* The command (lines 1117-1147) and the top level of analyze_video_audio  *)
(* (lines 416-506): file check, audio extraction, the precompute steps in  *)
(* the order their results are used, processing, summary.  A call of       *)
(* subprocess.run is a step of its own: the tool exits, or the timeout of  *)
(* the call expires; a tool that hangs never exits.                        *)

\* how a run can be started and set up: the command passes no audio path,
\* asks for extraction and builds the analyzer without an api key, which
\* selects MockASRClient, and with segmentation enabled
RunEnvs ==
    { e \in [cli : BOOLEAN, audio_path_given : BOOLEAN, extract_audio : BOOLEAN,
             HAS_LIBROSA : BOOLEAN, mock_asr : BOOLEAN, mock_pause_detector : BOOLEAN] :
        /\ e.cli => (~e.audio_path_given /\ e.extract_audio /\ e.mock_asr)
        /\ e.audio_path_given => e.extract_audio }

\* subprocess.run(cmd, ..., timeout=...) as called by caller
Popen(cmd, caller, has_timeout, timeout, hangs) ==
    [cmd |-> cmd, caller |-> caller, has_timeout |-> has_timeout, timeout |-> timeout,
     hangs |-> hangs]

\* MockASRClient.transcribe_and_segment: one segment per 3 s of duration
RECURSIVE mock_transcribe(_, _, _)
mock_transcribe(duration, i, acc) ==
    IF i >= (duration \div 1000) * 1000 THEN acc
    ELSE mock_transcribe(duration, i + mock_asr_step_s,
             Append(acc, [text |-> [content |-> "mock speech segment", len |-> 7],
                          start_ms |-> i,
                          end_ms |-> IF i + mock_asr_step_s < ms_of_s(duration)
                                     THEN i + mock_asr_step_s ELSE ms_of_s(duration),
                          source |-> "MOCK_ASR", punct |-> "."]))

\* the pause intervals a detector reports in a run
RunPauseInputs == { <<>>, <<Interval(1500, 3000)>> }

\* provider outcomes of a run, the same for each of its sub-segments: no
\* event and no trigger, an audio event, a failing trigger policy
RunOutcomes ==
    { o \in ProviderOutcomes :
        /\ o.video_out = "none" /\ o.audio_out # "raise" /\ ~o.coin
        /\ o.prosody_ok /\ o.facial_ok
        /\ o.trig_raises => o.audio_out = "none" }

\* one iteration of the inner loop: the accumulator [emitted, audio, video,
\* total] after sub_seg
run_sub_segment(sub_seg, o, acc) ==
    LET sub_start_ms == Get(sub_seg, "start_ms", 0)
        sub_start_s == s_of_ms(sub_start_ms)
        sub_end_s == s_of_ms(Get(sub_seg, "end_ms", sub_start_ms + default_end_ms))
        events == detect_events_in_segment(o.audio_out, o.video_out)
        r == process_sub_segment(sub_seg, sub_start_s, sub_end_s, acc.audio, acc.video,
                                 events, o.trig_raises, o.coin, o.prosody_ok, o.facial_ok)
    IN [emitted |-> acc.emitted \o r.emitted, audio |-> r.audio, video |-> r.video,
        total |-> track_end(acc.total, sub_end_s)]

\* the inner loop over sub_segments from index j, with provider outcome o
\* (the accumulator is bound to its value once per iteration)
RECURSIVE run_sub_segments(_, _, _, _)
run_sub_segments(subs, j, o, acc) ==
    IF j > Len(subs) THEN acc
    ELSE CHOOSE out \in { run_sub_segments(subs, j + 1, o, run_sub_segment(subs[j], o, a)) :
                              a \in {acc} } : TRUE

\* the sub_segments of a RawSegment, lines 656-672
sub_segments_of(asr_seg) ==
    LET start_ms == Get(asr_seg, "start_ms", 0)
        end_ms == Get(asr_seg, "end_ms", start_ms + default_end_ms)
        start_s == s_of_ms(start_ms)
        end_s == s_of_ms(end_ms)
    IN IF needs_split(asr_seg, start_s, end_s)
       THEN vad_split_segment_cached(start_s, end_s, asr_seg)
       ELSE <<asr_seg>>

\* the outer loop over asr_segments from index i
RECURSIVE run_segments(_, _, _, _)
run_segments(segs, i, o, acc) ==
    IF i > Len(segs) THEN acc
    ELSE CHOOSE out \in
             { run_segments(segs, i + 1, o,
                   run_sub_segments(sub_segments_of(segs[i]), 1, o,
                       [a EXCEPT !.total = track_end(a.total, s_of_ms(EndMs0(segs[i])))])) :
                   a \in {acc} } : TRUE

\* _process_segments_event_driven as a function of its arguments and the
\* stores: what it returns, the stores it leaves and its cleanup reference
process_segments_event_driven(segs, audio, acache, vcache, o) ==
    IF segs = <<>>
    THEN [emitted |-> <<>>, audio |-> acache, video |-> vcache,
          total |-> empty_reference(audio)]
    ELSE run_segments(segs, 1, o,
                      [emitted |-> <<>>, audio |-> acache, video |-> vcache, total |-> 0])

RunFrame == <<seg_idx, sub_segments, sub_idx, split_log, sub_log, last, lookup_result,
              futures, pause_detector, env, relay>>

RunData == <<precomputed_vad, asr_segments, precomputed_audio, precomputed_video,
             processed_segments, total_end_s, audio_cache, video_cache, cleanup_log>>

RunInit ==
    /\ env \in RunEnvs
    /\ pause_detector \in BOOLEAN
    /\ env.mock_pause_detector => pause_detector
    /\ env.cli => pause_detector
    /\ pc = IF env.cli THEN "main" ELSE "validate"
    /\ precomputed_vad = None
    /\ asr_segments = <<>>
    /\ precomputed_audio = None
    /\ seg_idx = 0
    /\ sub_segments = <<>>
    /\ sub_idx = 0
    /\ processed_segments = <<>>
    /\ total_end_s = 0
    /\ audio_cache = <<>>
    /\ video_cache = <<>>
    /\ split_log = <<>>
    /\ sub_log = <<>>
    /\ last = NoOutcome
    /\ cleanup_log = <<>>
    /\ lookup_result = None
    /\ futures = NoFutures
    /\ precomputed_video = None
    /\ subprocess = None
    /\ result = None
    /\ exit_status = None
    /\ output = NoOutput
    /\ relay = None

\* mutant of Fail: the exception leaves analyze_video_audio
Fail_propagates(e) ==
    /\ pc' = "raised"
    /\ UNCHANGED result

\* the except branch of analyze_video_audio (lines 491-506)
Fail(e) ==
    /\ \E times \in RunTimes : result' = error_result(e, times.total)
    /\ pc' = "returned"

\* __main__ up to the call of analyze_video (lines 1117-1128)
CliMain ==
    /\ pc = "main"
    /\ \E argc \in {1, 2} :
           IF argc < 2
           THEN /\ output' = [output EXCEPT !.printed = Append(@, "usage")]
                /\ exit_status' = 1
                /\ pc' = "exited"
           ELSE /\ output' = [output EXCEPT !.printed = Append(@, "start")]
                /\ pc' = "validate"
                /\ UNCHANGED exit_status
    /\ UNCHANGED <<subprocess, result>>
    /\ UNCHANGED RunData
    /\ UNCHANGED RunFrame

\* os.path.exists(video_path), lines 425-427
Validate ==
    /\ pc = "validate"
    /\ \E exists \in BOOLEAN :
           IF exists THEN pc' = "prepare_audio" /\ UNCHANGED result
           ELSE Fail("FileNotFoundError")
    /\ UNCHANGED <<subprocess, exit_status, output>>
    /\ UNCHANGED RunData
    /\ UNCHANGED RunFrame

\* lines 430-433 and _extract_audio up to the call of ffmpeg (1025-1046)
PrepareAudio ==
    /\ pc = "prepare_audio"
    /\ IF ~env.audio_path_given /\ env.extract_audio
       THEN \E extracted_exists \in BOOLEAN, opened \in BOOLEAN, hangs \in BOOLEAN :
               /\ extracted_exists => (opened /\ ~hangs)
               /\ ~opened => ~hangs
               /\ IF extracted_exists
                  THEN pc' = "audio_vad" /\ UNCHANGED <<subprocess, result>>
                  ELSE IF ~opened
                  THEN Fail("ValueError") /\ UNCHANGED subprocess
                  ELSE /\ subprocess' = Popen("ffmpeg", "_extract_audio", TRUE,
                                              extract_timeout, hangs)
                       /\ pc' = "extracting"
                       /\ UNCHANGED result
       ELSE pc' = "audio_vad" /\ UNCHANGED <<subprocess, result>>
    /\ UNCHANGED <<exit_status, output>>
    /\ UNCHANGED RunData
    /\ UNCHANGED RunFrame

\* what the caller of subprocess.run does with its outcome: ok is a zero
\* exit status, error names the exception raised otherwise
AfterSubprocess(ok, error) ==
    CASE subprocess.caller = "_extract_audio" ->
           /\ IF ok THEN pc' = "audio_vad" /\ UNCHANGED result ELSE Fail(error)
           /\ UNCHANGED RunData
      [] subprocess.caller = "MockPauseDetector" ->
           /\ \E pause \in RunPauseInputs :
                  precomputed_vad' = [timeline |-> build_vad_timeline(<<>>, pause)]
           /\ pc' = "audio_duration"
           /\ UNCHANGED <<asr_segments, precomputed_audio, precomputed_video,
                          processed_segments, total_end_s, audio_cache, video_cache,
                          cleanup_log, result>>
      [] subprocess.caller = "_get_duration_ffprobe" ->
           /\ \E d \in Durations :
                  /\ ~ok => d = default_duration_s
                  /\ precomputed_audio' = [duration |-> d]
           /\ pc' = "video"
           /\ UNCHANGED <<precomputed_vad, asr_segments, precomputed_video,
                          processed_segments, total_end_s, audio_cache, video_cache,
                          cleanup_log, result>>
      [] subprocess.caller = "MockASRClient" ->
           /\ \E d \in Durations :
                  /\ ~ok => d = default_duration_s
                  /\ asr_segments' = mock_transcribe(d, 0, <<>>)
           /\ pc' = "process"
           /\ UNCHANGED <<precomputed_vad, precomputed_audio, precomputed_video,
                          processed_segments, total_end_s, audio_cache, video_cache,
                          cleanup_log, result>>

\* the tool exits, with status 0 or not (check=True raises CalledProcessError)
SubprocessExits ==
    /\ subprocess # None
    /\ ~subprocess.hangs
    /\ \E ok \in BOOLEAN : AfterSubprocess(ok, "CalledProcessError")
    /\ subprocess' = None
    /\ UNCHANGED <<exit_status, output>>
    /\ UNCHANGED RunFrame

\* the timeout of the call expires: the tool is killed, TimeoutExpired raised
SubprocessTimesOut ==
    /\ subprocess # None
    /\ subprocess.has_timeout
    /\ AfterSubprocess(FALSE, "TimeoutExpired")
    /\ subprocess' = None
    /\ UNCHANGED <<exit_status, output>>
    /\ UNCHANGED RunFrame

\* _precompute_audio up to _precompute_vad (lines 512-519, 597-621) and
\* MockPauseDetector.detect_pauses_from_file (158-166); the history of a
\* later call on the instance notes that this call built the timeline
AudioVad ==
    /\ pc = "audio_vad"
    /\ \/ /\ precomputed_audio' = default_audio_features
          /\ pc' = "video"
          /\ UNCHANGED <<precomputed_vad, subprocess, lookup_result>>
       \/ /\ pause_detector /\ env.mock_pause_detector /\ ~env.HAS_LIBROSA
          /\ \E hangs \in BOOLEAN :
                 subprocess' = Popen("ffprobe", "MockPauseDetector", FALSE, 0, hangs)
          /\ pc' = "vad_probing"
          /\ UNCHANGED <<precomputed_vad, precomputed_audio, lookup_result>>
       \/ /\ pause_detector /\ ~(env.mock_pause_detector /\ ~env.HAS_LIBROSA)
          /\ \E pause \in RunPauseInputs :
                 precomputed_vad' = [timeline |-> build_vad_timeline(<<>>, pause)]
          /\ lookup_result' = IF lookup_result = None THEN None
                              ELSE [lookup_result EXCEPT !.vad_built = TRUE]
          /\ pc' = "audio_duration"
          /\ UNCHANGED <<precomputed_audio, subprocess>>
       \/ /\ ~env.mock_pause_detector
          /\ pc' = "audio_duration"
          /\ UNCHANGED <<precomputed_vad, precomputed_audio, subprocess, lookup_result>>
    /\ UNCHANGED <<asr_segments, precomputed_video, processed_segments, total_end_s,
                   audio_cache, video_cache, cleanup_log, result, exit_status, output>>
    /\ UNCHANGED <<seg_idx, sub_segments, sub_idx, split_log, sub_log, last, futures,
                   pause_detector, env, relay>>

\* _get_audio_duration and the rest of _precompute_audio (lines 521-540,
\* 999-1021)
AudioDuration ==
    /\ pc = "audio_duration"
    /\ IF env.HAS_LIBROSA
       THEN /\ \E d \in Durations, raises \in BOOLEAN :
                   /\ raises => d = default_duration_s
                   /\ precomputed_audio' = precompute_audio(raises, d).value
            /\ pc' = "video"
            /\ UNCHANGED subprocess
       ELSE /\ \E hangs \in BOOLEAN :
                   subprocess' = Popen("ffprobe", "_get_duration_ffprobe", TRUE,
                                       probe_timeout, hangs)
            /\ pc' = "duration_probing"
            /\ UNCHANGED precomputed_audio
    /\ UNCHANGED <<precomputed_vad, asr_segments, precomputed_video, processed_segments,
                   total_end_s, audio_cache, video_cache, cleanup_log, result,
                   exit_status, output>>
    /\ UNCHANGED RunFrame

\* _precompute_video (lines 542-595)
Video ==
    /\ pc = "video"
    /\ \E raises \in BOOLEAN, video \in VideoInputs :
           /\ raises => video.fps = 0
           /\ ~raises => video.face_cache # <<>>
           /\ precomputed_video' = precompute_video(raises, video).value
    /\ pc' = "asr"
    /\ UNCHANGED <<precomputed_vad, asr_segments, precomputed_audio, processed_segments,
                   total_end_s, audio_cache, video_cache, cleanup_log, subprocess, result,
                   exit_status, output>>
    /\ UNCHANGED RunFrame

\* what the transcription provider returns to a run: also a long segment,
\* which the splitter cuts where the timeline has a pause, before a short one
RunAsrResults ==
    AsrResults \cup
        { <<[text |-> AsrText(30), start_ms |-> 0, end_ms |-> 16000,
             source |-> "ASR_PUNCT", punct |-> "."],
            [text |-> AsrText(30), start_ms |-> 16000, end_ms |-> 18000,
             source |-> "ASR_PUNCT", punct |-> "."]>> }

\* _run_asr_segmentation (lines 623-633) and
\* MockASRClient.transcribe_and_segment (81-105)
Asr ==
    /\ pc = "asr"
    /\ IF env.mock_asr
       THEN IF env.HAS_LIBROSA
            THEN /\ \E d \in Durations : asr_segments' = mock_transcribe(d, 0, <<>>)
                 /\ pc' = "process"
                 /\ UNCHANGED subprocess
            ELSE /\ \E hangs \in BOOLEAN :
                        subprocess' = Popen("ffprobe", "MockASRClient", FALSE, 0, hangs)
                 /\ pc' = "asr_probing"
                 /\ UNCHANGED asr_segments
       ELSE /\ \/ /\ \E segments \in RunAsrResults : asr_segments' = segments
                  /\ pc' = "process"
               \/ /\ pc' = "asr_fallback"
                  /\ UNCHANGED asr_segments
            /\ UNCHANGED subprocess
    /\ UNCHANGED <<precomputed_vad, precomputed_audio, precomputed_video,
                   processed_segments, total_end_s, audio_cache, video_cache, cleanup_log,
                   result, exit_status, output>>
    /\ UNCHANGED RunFrame

\* _fallback_vad_segmentation (lines 1063-1100); its detector and duration
\* calls are given by their outcomes
AsrFallback ==
    /\ pc = "asr_fallback"
    /\ \E detector_raises \in BOOLEAN, speech \in SpeechInputs, d \in Durations :
           /\ detector_raises => pause_detector /\ speech = <<>>
           /\ (pause_detector /\ ~detector_raises) => d = default_duration_s
           /\ ~pause_detector => speech = <<>>
           /\ asr_segments' = fallback_vad_segmentation(detector_raises, speech, d).value
    /\ pc' = "process"
    /\ UNCHANGED <<precomputed_vad, precomputed_audio, precomputed_video,
                   processed_segments, total_end_s, audio_cache, video_cache, cleanup_log,
                   subprocess, result, exit_status, output>>
    /\ UNCHANGED RunFrame

\* the call of _process_segments_event_driven (lines 462-465), whole
Process ==
    /\ pc = "process"
    /\ \E o \in RunOutcomes :
           LET r == process_segments_event_driven(asr_segments, precomputed_audio,
                                                  audio_cache, video_cache, o)
           IN /\ processed_segments' = r.emitted
              /\ total_end_s' = r.total
              /\ RunCleanup(r.audio, r.video, r.total)
    /\ pc' = "done"
    /\ UNCHANGED <<precomputed_vad, asr_segments, precomputed_audio, precomputed_video,
                   subprocess, result, exit_status, output>>
    /\ UNCHANGED RunFrame

\* __main__ after analyze_video returned (lines 1130-1147): the prints read
\* summary.performance.speedup_ratio, which the error result does not have;
\* the except branch prints the exception it caught and exits with 1
CliReport ==
    /\ pc = "returned"
    /\ env.cli
    /\ IF "speedup_ratio" \in DOMAIN result.summary.performance
       THEN \E dumped \in BOOLEAN :
               IF dumped
               THEN /\ output' = [printed |-> output.printed \o <<"done", "saved">>,
                                  saved |-> result]
                    /\ exit_status' = 0
               ELSE /\ output' = [output EXCEPT !.printed = @ \o <<"done", "OSError">>]
                    /\ exit_status' = 1
       ELSE /\ output' = [output EXCEPT !.printed = @ \o <<"done", "KeyError">>]
            /\ exit_status' = 1
    /\ pc' = "exited"
    /\ UNCHANGED <<subprocess, result>>
    /\ UNCHANGED RunData
    /\ UNCHANGED RunFrame

RunNext ==
    \/ CliMain
    \/ Validate
    \/ PrepareAudio
    \/ SubprocessExits
    \/ SubprocessTimesOut
    \/ AudioVad
    \/ AudioDuration
    \/ Video
    \/ Asr
    \/ AsrFallback
    \/ Process
    \/ Aggregate
    \/ CliReport

RunSpec == RunInit /\ [][RunNext]_vars

\* the same run with every step taken when it can be: a Python call that is
\* not waiting for anything goes on
FairRunSpec == RunInit /\ [][RunNext]_vars /\ WF_vars(RunNext)

RunReturned == pc \in {"returned", "exited"}

FailedResult(r) ==
    /\ r.segments = <<>>
    /\ "error" \in DOMAIN r.summary
    /\ "status" \in DOMAIN r.summary.performance
    /\ r.summary.performance.status = "failed"

\* the positions of a run that has not raised
RunPositions ==
    {"main", "validate", "prepare_audio", "extracting", "audio_vad", "vad_probing",
     "audio_duration", "duration_probing", "video", "asr", "asr_probing", "asr_fallback",
     "process", "done", "returned", "exited"}

TopLevelErrors ==
    {"FileNotFoundError", "ValueError", "CalledProcessError", "TimeoutExpired",
     "ZeroDivisionError"}

SuccessResult(r) ==
    /\ "error" \notin DOMAIN r.summary
    /\ "status" \notin DOMAIN r.summary.performance
    /\ r.segments = processed_segments

(* C21: analyze_video_audio never lets a failure out: a run is always at   *)
(* one of its own positions, and once it has returned it has a result; a   *)
(* result that comes from a failure (missing file, extraction, building    *)
(* the summary) has no segments, an error description and status failed.   *)
C21_TopLevelFailureGivesFailedResult ==
    /\ pc \in RunPositions
    /\ pc = "returned" => result # None
    /\ pc \notin {"returned", "exited"} => result = None
    /\ result # None =>
           \/ SuccessResult(result)
           \/ /\ FailedResult(result)
              /\ result.summary.error \in TopLevelErrors
              /\ result.summary.segment_count = 0

\* a run returned the failed result after the extraction tool timed out
C21_Witness ==
    /\ pc = "returned"
    /\ FailedResult(result)
    /\ result.summary.error = "TimeoutExpired"

\* the exceptions _extract_audio raises when the extraction tool or the video
\* capture fails
ExtractionErrors == {"ValueError", "CalledProcessError", "TimeoutExpired"}

(* C22: a failure of a single provider is degradable: a run whose video    *)
(* file exists and in which only a provider failed (here: the extraction   *)
(* tool) still returns a result that is not the failed one.                *)
C22_ProviderFailureIsDegradable ==
    (result # None /\ "error" \in DOMAIN result.summary) =>
        result.summary.error \notin ExtractionErrors

---------------------------------------------------------------------------
\* every RawSegment handed to the run ends no earlier than it starts
RawSegmentsOrdered ==
    \A i \in 1..Len(asr_segments) : asr_segments[i].start_ms <= EndMs(asr_segments[i])

(* C23: every SegmentResult of a run has start_ms <= end_ms, whichever     *)
(* path produced it (full compute, cached interpolation, error fallback)   *)
(* and for every sub-segment of the splitter, the RawSegments ending no    *)
(* earlier than they start, one of them without an end_ms.                 *)
C23_ResultsStartBeforeEnd ==
    RawSegmentsOrdered =>
        \A j \in 1..Len(processed_segments) :
            processed_segments[j].start_ms <= processed_segments[j].end_ms

\* a run whose first RawSegment had no end_ms and was processed unsplit on
\* the error-fallback path, and whose second was split, with a sub-segment
\* on the cached path and one on the full-compute path
C23_Witness ==
    /\ pc = "done"
    /\ Len(asr_segments) = 2
    /\ "end_ms" \notin DOMAIN asr_segments[1]
    /\ Len(split_log[1]) = 1
    /\ Len(split_log[2]) >= 2
    /\ Mode(processed_segments[1]) = "error_fallback"
    /\ \E j \in 2..Len(processed_segments) : Mode(processed_segments[j]) = "cached_interpolation"
    /\ \E j \in 2..Len(processed_segments) : Mode(processed_segments[j]) = "full_compute"

---------------------------------------------------------------------------
(* C24: every call of an external tool for extraction or duration probing  *)
(* carries a timeout, so a run, whose steps are taken whenever they can    *)
(* be, always returns a result (or the command exits), even when a tool    *)
(* never exits.                                                            *)
C24_RunAlwaysReturns == <>RunReturned

---------------------------------------------------------------------------
\* the command has reported r: saved it, or printed its error description
Reported(r) ==
    \/ output.saved = r
    \/ \E i \in 1..Len(output.printed) : output.printed[i] = r.summary.error

(* C25: run as a command, the program exits with a non-zero status when    *)
(* the media path argument is missing and when the run ended in a          *)
(* top-level failure, and in the latter case it reports the structured     *)
(* failure result.                                                         *)
C25_CommandFailsWithStructuredResult ==
    (env.cli /\ pc = "exited") =>
        /\ result = None => exit_status # 0
        /\ (result # None /\ FailedResult(result)) =>
               /\ exit_status # 0
               /\ Reported(result)

---------------------------------------------------------------------------
(* C26: only the full-compute path writes the Feature Cache: after a       *)
(* sub-segment was processed on the cached-interpolation path, lookups     *)
(* included, or on the error-fallback path, the audio store and the video  *)
(* store are what they were before, keys and snapshots; a store that       *)
(* differs was written by a full compute.                                  *)
C26_OnlyFullComputeWritesTheStores ==
    pc = "stepped" =>
        /\ Mode(StepResult) \in {"cached_interpolation", "error_fallback"} =>
               /\ audio_cache = lookup_result.audio_before
               /\ video_cache = lookup_result.video_before
        /\ (audio_cache # lookup_result.audio_before
               \/ video_cache # lookup_result.video_before) =>
               Mode(StepResult) = "full_compute"

\* an error fallback over stores that both hold an entry at the key of the
\* sub-segment
C26_Witness ==
    /\ pc = "stepped"
    /\ Mode(StepResult) = "error_fallback"
    /\ StepKey \in DictKeys(audio_cache)
    /\ StepKey \in DictKeys(video_cache)

---------------------------------------------------------------------------
\* the events of one type in the sequence handed to the trigger policy
EventsOfType(events, type) == SelectSeq(events, LAMBDA e : e.type = type)

\* no video event stands before an audio event
AudioBeforeVideo(events) ==
    \A i, j \in 1..Len(events) :
        i < j => ~(events[i].type = "visual_change" /\ events[j].type = "audio_change")

\* the number of events a provider call reported
Reported_n(out) == IF out = "event" THEN 1 ELSE 0

\* a provider call of the event detection of the step raised
DetectionFailed == lookup_result.audio_out = "raise" \/ lookup_result.video_out = "raise"

(* C27 as amended: a failing event-detection call does not fail the        *)
(* sub-segment (the trigger policy is still consulted and a result is      *)
(* emitted on the full-compute or the cached path) and event detection     *)
(* yields what was collected before the failing call: the empty list when  *)
(* the audio call fails, the audio events alone when the video call fails; *)
(* when both calls succeed the sequence holds the events of both with the  *)
(* audio events before the video events.                                   *)
C27_DetectionKeepsWhatWasCollected ==
    pc = "stepped" =>
        LET events == lookup_result.events
            audio_out == lookup_result.audio_out
            video_out == lookup_result.video_out
        IN /\ Len(processed_segments) = 1
           /\ DetectionFailed /\ lookup_result.trigger_info # None =>
                  Mode(StepResult) \in {"full_compute", "cached_interpolation"}
           /\ audio_out = "raise" => events = <<>>
           /\ audio_out # "raise" =>
                  Len(EventsOfType(events, "audio_change")) = Reported_n(audio_out)
           /\ video_out = "raise" => EventsOfType(events, "visual_change") = <<>>
           /\ ~DetectionFailed =>
                  Len(EventsOfType(events, "visual_change")) = Reported_n(video_out)
           /\ Len(events) = Len(EventsOfType(events, "audio_change"))
                              + Len(EventsOfType(events, "visual_change"))
           /\ AudioBeforeVideo(events)

\* the video call raised after the audio call had reported an event: the
\* audio event is kept and triggers a full compute
C27_Witness ==
    /\ pc = "stepped"
    /\ lookup_result.audio_out = "event"
    /\ lookup_result.video_out = "raise"
    /\ lookup_result.events = <<[type |-> "audio_change"]>>
    /\ Mode(StepResult) = "full_compute"

\* C27 as stated: any failing provider call yields the empty event list
C27_FailureYieldsEmptyList ==
    pc = "stepped" =>
        /\ Len(processed_segments) = 1
        /\ DetectionFailed => lookup_result.events = <<>>
        /\ AudioBeforeVideo(lookup_result.events)

---------------------------------------------------------------------------
\* the transcription provider raised and the fallback has delivered
TranscriptionFellBack == futures.asr.state = "done" /\ futures.asr.raised

\* the voice-activity provider is configured and answered the fallback
VadAnswered == pause_detector /\ ~lookup_result.detector_raises

(* C28: transcription never fails the run.  When the transcription         *)
(* provider raises, the task delivers, without an exception, one           *)
(* VAD_FALLBACK pseudo-segment per speech interval of the voice-activity   *)
(* provider, in the order of the intervals and with their times in ms;     *)
(* when no voice-activity provider is configured or it raises too, it      *)
(* delivers exactly one segment from 0 to the total duration.  These are   *)
(* the RawSegments the orchestrator goes on with.                          *)
C28_TranscriptionFailureFallsBackToVad ==
    /\ pc # "failed"
    /\ TranscriptionFellBack =>
           LET segments == futures.asr.result
               speech == lookup_result.speech_segments
           IN /\ ~futures.asr.exception
              /\ VadAnswered =>
                     /\ Len(segments) = Len(speech)
                     /\ \A i \in 1..Len(segments) :
                            /\ segments[i].source = "VAD_FALLBACK"
                            /\ segments[i].start_ms = ms_of_s(speech[i].start_time)
                            /\ segments[i].end_ms = ms_of_s(speech[i].end_time)
              /\ ~VadAnswered =>
                     /\ Len(segments) = 1
                     /\ segments[1].start_ms = 0
                     /\ segments[1].end_ms = ms_of_s(lookup_result.duration)
                     /\ segments[1].source =
                            (IF pause_detector THEN "ULTIMATE_FALLBACK" ELSE "FALLBACK")
              /\ pc \in {"joined", "processing"} => asr_segments = segments

\* processing begins on the two pseudo-segments of two speech intervals
C28_Witness ==
    /\ pc = "processing"
    /\ TranscriptionFellBack
    /\ VadAnswered
    /\ Len(asr_segments) = 2
    /\ asr_segments[1].end_ms <= asr_segments[2].start_ms
    /\ \A i \in 1..2 : asr_segments[i].source = "VAD_FALLBACK"

---------------------------------------------------------------------------
\* the FeatureSnapshot shape: three sound arrays of the configured count and
\* a [mean, std] pair for every feature of the vocabulary
SoundShape(sound) ==
    /\ DOMAIN sound = {"pitch", "rate", "level"}
    /\ \A k \in DOMAIN sound : sound[k].len = prosody_points

FaceShape(face) ==
    /\ DOMAIN face = FaceVocabulary
    /\ \A k \in DOMAIN face : face[k].len = 2

\* every array of the bundle is all zero
AllZero(features) == \A k \in DOMAIN features : features[k].zero

(* C29: the neutral default bundle a result gets on a cache miss or a      *)
(* failure has the FeatureSnapshot shape: sound is three all-zero arrays   *)
(* (pitch, rate, level) of the configured sample count and face is an      *)
(* all-zero [mean, std] pair for every feature of {Smile, Mouth, EAR,      *)
(* Brow, Yaw, Pitch, Roll, FaceSize}; so the result of every path carries  *)
(* the same face keys.                                                     *)
C29_DefaultBundleHasSnapshotShape ==
    pc = "stepped" =>
        /\ SoundShape(StepResult.sound)
        /\ FaceShape(StepResult.face)
        /\ Mode(StepResult) = "error_fallback" =>
               AllZero(StepResult.sound) /\ AllZero(StepResult.face)
        /\ (Mode(StepResult) = "cached_interpolation"
               /\ lookup_result.audio_before = <<>>) => AllZero(StepResult.sound)
        /\ (Mode(StepResult) = "cached_interpolation"
               /\ lookup_result.video_before = <<>>) => AllZero(StepResult.face)

---------------------------------------------------------------------------
\* the counts by source of the summary: the key and the source it counts
SourceCounts == { <<"asr_segments", "ASR_PUNCT">>, <<"vad_fallback_segments", "VAD_FALLBACK">> }

\* the meta.source values occurring among the results
SourcesOf(segments) == { segments[i].meta.source : i \in 1..Len(segments) }

\* analyze_video_audio has returned the result of a successful run
ReturnedSuccess == pc = "returned" /\ "error" \notin DOMAIN result.summary

(* C30 as amended: in the summary of a successful run segment_count is the *)
(* number of SegmentResults of the segment list, which are the processed   *)
(* results; by source the summary counts two sources only: asr_segments is *)
(* the number of results with source ASR_PUNCT and vad_fallback_segments   *)
(* the number with source VAD_FALLBACK.  Results of any other source are   *)
(* in segment_count and in neither count.                                  *)
C30_SummaryCountsTwoSources ==
    ReturnedSuccess =>
        /\ result.segments = processed_segments
        /\ result.summary.segment_count = Len(result.segments)
        /\ \A c \in SourceCounts :
               /\ c[1] \in DOMAIN result.summary
               /\ result.summary[c[1]] = count_source(result.segments, c[2])
        /\ result.summary.asr_segments + result.summary.vad_fallback_segments
               = Cardinality({ i \in 1..Len(result.segments) :
                                 result.segments[i].meta.source \in {"ASR_PUNCT", "VAD_FALLBACK"} })

\* a successful run with a counted result and results of a source that no
\* count covers
C30_Witness ==
    /\ ReturnedSuccess
    /\ result.summary.asr_segments + result.summary.vad_fallback_segments > 0
    /\ result.summary.segment_count
           > result.summary.asr_segments + result.summary.vad_fallback_segments

\* C30 as stated: every source occurring among the results has its count
C30_SummaryCountsEverySource ==
    ReturnedSuccess =>
        /\ result.summary.segment_count = Len(result.segments)
        /\ \A source \in SourcesOf(result.segments) :
               \E c \in SourceCounts :
                   /\ c[2] = source
                   /\ result.summary[c[1]] = count_source(result.segments, source)

---------------------------------------------------------------------------
\* the splitter cut RawSegment i at pause buckets of the timeline
WasSplit(i) ==
    LET seg == asr_segments[i]
        start_s == s_of_ms(Get(seg, "start_ms", 0))
        end_s == s_of_ms(EndMs0(seg))
    IN /\ needs_split(seg, start_s, end_s)
       /\ precomputed_vad # None
       /\ split_points_of(precomputed_vad.timeline, start_s, end_s) # <<>>
       /\ split_log[i] # <<>>

(* C31: the sub-segments the splitter makes of a RawSegment tile the span  *)
(* of the parent: the first starts at the parent's start, each next one    *)
(* starts where the one before ends, and the last ends at the parent's     *)
(* end.                                                                    *)
C31_SubSegmentsTileTheParent ==
    \A i \in 1..Len(split_log) :
        WasSplit(i) =>
            LET subs == split_log[i]
            IN /\ subs[1].start_ms = Get(asr_segments[i], "start_ms", 0)
               /\ \A a \in 1..(Len(subs) - 1) : subs[a + 1].start_ms = subs[a].end_ms
               /\ subs[Len(subs)].end_ms = EndMs0(asr_segments[i])

---------------------------------------------------------------------------
(* C32: every entry of the Feature Cache is a snapshot an analyzer call    *)
(* returned: when the prosody or the facial analyzer fails in a full       *)
(* compute, the neutral default bundle is written into neither store, so   *)
(* no entry of a store is the all-zero default and no cached result takes  *)
(* all-zero features from a store.                                         *)
C32_StoresHoldOnlyAnalyzedSnapshots ==
    /\ \A i \in 1..Len(audio_cache) : ~AllZero(audio_cache[i].f)
    /\ \A i \in 1..Len(video_cache) : ~AllZero(video_cache[i].f)
    /\ (last.prosody = "raise" \/ last.facial = "raise") =>
           \A i \in 1..Len(audio_cache) :
               audio_cache[i].f # get_default_sound_features

---------------------------------------------------------------------------
(* Two analyses on one analyzer instance.  The stores of self.cache and    *)
(* self._precomputed_vad are attributes set in __init__ (lines 372-379,    *)
(* 410-412) and by the runs; analyze_video_audio does not reset them.      *)

\* a second call of analyze_video_audio on the instance (lines 416-423): its
\* locals are fresh, the attributes are what the first call left; the
\* history keeps them as they were
AnalyzeAgain ==
    /\ pc = "returned"
    /\ ~env.cli
    /\ lookup_result = None
    /\ lookup_result' = [kind |-> "run", audio_before |-> audio_cache,
                         video_before |-> video_cache, vad_before |-> precomputed_vad,
                         vad_built |-> FALSE]
    /\ pc' = "validate"
    /\ asr_segments' = <<>>
    /\ precomputed_audio' = None
    /\ precomputed_video' = None
    /\ processed_segments' = <<>>
    /\ total_end_s' = 0
    /\ result' = None
    /\ UNCHANGED <<precomputed_vad, audio_cache, video_cache, cleanup_log, subprocess,
                   exit_status, output>>
    /\ UNCHANGED <<seg_idx, sub_segments, sub_idx, split_log, sub_log, last, futures,
                   pause_detector, env, relay>>

\* an analyzer built by the library caller, with the real providers
InstanceInit == RunInit /\ env = LibraryEnv

InstanceNext ==
    \/ Validate
    \/ PrepareAudio
    \/ AudioVad
    \/ AudioDuration
    \/ Video
    \/ Asr
    \/ AsrFallback
    \/ Process
    \/ Aggregate
    \/ AnalyzeAgain

InstanceSpec == InstanceInit /\ [][InstanceNext]_vars

\* the second analysis of the instance has finished processing
SecondRunProcessed == lookup_result # None /\ pc \in {"done", "returned"}

\* the results of the run on the cached path that took features from a store
ServedFromStore ==
    { i \in 1..Len(processed_segments) :
        /\ Mode(processed_segments[i]) = "cached_interpolation"
        /\ \/ processed_segments[i].sound # get_default_sound_features
           \/ processed_segments[i].face # get_default_face_features }

\* the results of the run made by a full compute
FullComputes == { i \in 1..Len(processed_segments) : Mode(processed_segments[i]) = "full_compute" }

(* C33: when one analyzer instance runs two analyses in sequence, a        *)
(* cached-interpolation result of the second run carries only features     *)
(* that a full compute of that same run stored, never features the first   *)
(* run left in the stores.                                                 *)
C33_LookupsServeOnlyTheirOwnRun ==
    SecondRunProcessed =>
        \A i \in ServedFromStore :
            /\ processed_segments[i].sound # get_default_sound_features =>
                   \E j \in FullComputes : processed_segments[j].sound = processed_segments[i].sound
            /\ processed_segments[i].face # get_default_face_features =>
                   \E j \in FullComputes : processed_segments[j].face = processed_segments[i].face

---------------------------------------------------------------------------
\* the VAD precompute of the current run built the timeline
VadBuiltThisRun ==
    IF lookup_result = None THEN precomputed_vad # None ELSE lookup_result.vad_built

(* C34: the splitter consults only the VAD timeline built by the precompute *)
(* of the current run: in a run whose VAD precompute failed or was skipped *)
(* no segment is split, also when an earlier run on the same instance had  *)
(* built a timeline, and the over-long segment comes back unsplit.         *)
C34_SplitterUsesOnlyThisRunsTimeline ==
    (pc \in {"done", "returned"} /\ ~VadBuiltThisRun) =>
        /\ Len(processed_segments) = Len(asr_segments)
        /\ \A i \in 1..Len(processed_segments) :
               processed_segments[i].meta.source # "VAD_SPLIT"

---------------------------------------------------------------------------
\* the tasks whose future a step changes (a future without a result holds
\* None, with one the value delivered)
Stepping ==
    { t \in Tasks :
        \/ futures'[t].state # futures[t].state
        \/ futures'[t].raised # futures[t].raised
        \/ futures'[t].exception # futures[t].exception
        \/ futures[t].state = "done" /\ futures'[t].result # futures[t].result }

\* a step of the precompute phase touches the future of one task at most,
\* self._precomputed_vad only in a step of the audio task, and the Feature
\* Cache never.  (self._precomputed_audio and self._precomputed_face_cache
\* are the dicts the audio and the video task return, held in their futures.)
StepKeepsOtherParts ==
    /\ Cardinality(Stepping) <= 1
    /\ precomputed_vad' # precomputed_vad =>
           Stepping = {"audio"} /\ futures.audio.state = "pending"
    /\ audio_cache' = audio_cache
    /\ video_cache' = video_cache

\* what segment processing is handed after the barrier is what the tasks
\* delivered, and the Feature Cache is as it was
InputsAreTaskResults ==
    pc = "processing" =>
        /\ precomputed_audio = futures.audio.result
        /\ precomputed_video = futures.video.result
        /\ asr_segments = futures.asr.result
        /\ audio_cache = <<>>
        /\ video_cache = <<>>

(* C35: the three precompute tasks write pairwise disjoint parts of the    *)
(* analyzer's state (the audio task its result and the VAD timeline, the   *)
(* video task its result, the transcription task only its result) and none *)
(* of them touches the Feature Cache; so what is handed to segment         *)
(* processing after the barrier is what each task delivered, whatever the  *)
(* order in which the tasks ran.                                           *)
C35_TasksWriteDisjointState == []InputsAreTaskResults /\ [][StepKeepsOtherParts]_vars

\* processing begins after the tasks completed in the reverse of the order
\* they were submitted in, the audio task having built the timeline and the
\* transcription task having fallen back
C35_Witness ==
    /\ pc = "processing"
    /\ futures.order = <<"asr", "video", "audio">>
    /\ precomputed_vad # None
    /\ futures.asr.raised
    /\ ~futures.audio.raised
    /\ ~futures.video.raised

---------------------------------------------------------------------------
(* C36: in every TriggerDecision the trigger policy returns, reasons is    *)
(* non-empty exactly when should_trigger is true: a decision not to        *)
(* recompute has empty reasons, and a recompute decided for a window       *)
(* without events has the single reason random_trigger.                    *)
C36_ReasonsIffTrigger ==
    (pc = "stepped" /\ lookup_result.trigger_info # None) =>
        LET info == lookup_result.trigger_info
        IN /\ info.reasons # <<>> <=> info.should_trigger
           /\ ~info.should_trigger => info.reasons = <<>>
           /\ (info.should_trigger /\ lookup_result.events = <<>>) =>
                  /\ Len(info.reasons) = 1
                  /\ info.reasons[1].tag = "random_trigger"
           /\ lookup_result.events # <<>> =>
                  \A i \in 1..Len(info.reasons) : info.reasons[i].tag # "random_trigger"

\* a recompute decided for a window in which no event was detected
C36_Witness ==
    /\ pc = "stepped"
    /\ lookup_result.trigger_info # None
    /\ lookup_result.events = <<>>
    /\ lookup_result.trigger_info.should_trigger
    /\ lookup_result.trigger_info.reasons = <<[tag |-> "random_trigger", n |-> 0]>>
    /\ Mode(StepResult) = "full_compute"

---------------------------------------------------------------------------
\* what a lookup at timestamp t on the store returns
LookupAt(cache, t) == get_interpolated_audio(cache, t, prosody_points)

\* the snapshot the store holds at key t
EntryAt(cache, t) == cache[DictAt(cache, t)].f

\* a lookup at a key of a store returns the snapshot held at that key,
\* whatever the other entries are; both lookups are the same function of
\* their store
LookupAtKeyReturnsEntry ==
    /\ \A t \in DictKeys(audio_cache) : LookupAt(audio_cache, t) = EntryAt(audio_cache, t)
    /\ \A t \in DictKeys(video_cache) :
           get_interpolated_video(video_cache, t) = EntryAt(video_cache, t)

\* a step that stores f at t leaves a store in which the lookup at t gives f
StoreThenLookup ==
    pc' = "store" =>
        /\ \A t \in StoreTimes, f \in SoundValues :
               (audio_cache' = store_audio_features(audio_cache, t, [sound |-> f])
                    /\ video_cache' = video_cache) =>
                   LookupAt(audio_cache', t) = f
        /\ \A t \in StoreTimes, f \in FaceValues :
               (video_cache' = store_video_features(video_cache, t, [face |-> f])
                    /\ audio_cache' = audio_cache) =>
                   get_interpolated_video(video_cache', t) = f

\* what a lookup at a key returns stays until a store at that key or a cleanup
LookupPersists ==
    pc' # "cleanup" =>
        /\ \A t \in DictKeys(audio_cache) :
               \/ LookupAt(audio_cache', t) = LookupAt(audio_cache, t)
               \/ \E f \in SoundValues :
                      audio_cache' = store_audio_features(audio_cache, t, [sound |-> f])
        /\ \A t \in DictKeys(video_cache) :
               \/ get_interpolated_video(video_cache', t) = get_interpolated_video(video_cache, t)
               \/ \E f \in FaceValues :
                      video_cache' = store_video_features(video_cache, t, [face |-> f])

\* a store into one store leaves the other as it was
StoresAreSeparate ==
    pc' = "store" => (audio_cache' = audio_cache \/ video_cache' = video_cache)

(* C37: store followed by lookup round-trips: after a non-empty bundle f   *)
(* is stored at timestamp t in a store, a lookup at t on that store        *)
(* returns f, whatever other entries the store holds, until an entry is    *)
(* stored again at t or a cleanup evicts it; a store into the audio store  *)
(* does not change the video store and a store into the video store does   *)
(* not change the audio store.                                             *)
C37_StoreLookupRoundTrip ==
    []LookupAtKeyReturnsEntry /\ [][StoreThenLookup /\ LookupPersists /\ StoresAreSeparate]_vars

\* a lookup at the key of an analyzed bundle in a store that holds another
\* bundle at the next key
C37_Witness ==
    /\ pc = "lookup"
    /\ lookup_result.kind = "audio"
    /\ lookup_result.timestamp \in DictKeys(audio_cache)
    /\ Len(audio_cache) >= 2
    /\ lookup_result.result = EntryAt(audio_cache, lookup_result.timestamp)
    /\ ~AllZero(lookup_result.result)
    /\ \E t \in DictKeys(audio_cache) :
           /\ AbsDiff(t, lookup_result.timestamp) < cache_valid_s
           /\ EntryAt(audio_cache, t) # lookup_result.result

---------------------------------------------------------------------------
(* realtime_stt_server.py: the RealtimeSTTServer.                          *)
(*                                                                         *)
(* The coroutines (client_handler, start_recording, stop_recording,        *)
(* text_processor) run on one event loop: the code between two awaits that *)
(* suspend is one step.  broadcast_to_clients suspends in asyncio.gather   *)
(* when there is a client and returns at once when there is none.          *)
(* Thread.join(timeout=3.0) blocks the event loop, so no coroutine runs    *)
(* during it; it returns when the worker has ended or when the 3 s are     *)
(* over.  The recording workers are threads and step at any time.          *)
(* A text is represented by the task id of the session whose recorder      *)
(* transcribed it.                                                         *)

TaskIds == {"t1", "t2"}
Clients == {"c1", "c2"}
MaxQueue == 2

\* None as the value of recorder, recording_thread and current_session_id
Unset == "None"

\* a connection that has no client_handler
Closed == [at |-> "none", task_id |-> Unset]

\* a client_handler waiting for the next message of its connection
Idle == [at |-> "idle", task_id |-> Unset]

RelayVars == <<pc, precomputed_vad, asr_segments, precomputed_audio, seg_idx,
               sub_segments, sub_idx, processed_segments, total_end_s,
               audio_cache, video_cache, split_log, sub_log, last, cleanup_log,
               lookup_result, futures, precomputed_video, pause_detector,
               env, subprocess, result, exit_status, output>>

\* RealtimeSTTServer.__init__
RealtimeSTTServer ==
    [clients            |-> {},
     recorder           |-> Unset,
     recording_thread   |-> Unset,
     stop_event         |-> FALSE,
     text_queue         |-> <<>>,
     is_recording       |-> FALSE,
     current_session_id |-> Unset,
     handler            |-> [c \in Clients |-> Closed],
     worker             |-> [t \in TaskIds |-> "none"],
     processor          |-> [t \in TaskIds |-> "none"],
     received           |-> {},
     refused            |-> {},
     sent               |-> {}]

RelayInit ==
    /\ pc = "relay"
    /\ precomputed_vad = None
    /\ asr_segments = <<>>
    /\ precomputed_audio = [duration |-> 0]
    /\ seg_idx = 0
    /\ sub_segments = <<>>
    /\ sub_idx = 0
    /\ processed_segments = <<>>
    /\ total_end_s = 0
    /\ audio_cache = <<>>
    /\ video_cache = <<>>
    /\ split_log = <<>>
    /\ sub_log = <<>>
    /\ last = NoOutcome
    /\ cleanup_log = <<>>
    /\ lookup_result = None
    /\ futures = NoFutures
    /\ precomputed_video = None
    /\ pause_detector = TRUE
    /\ env = LibraryEnv
    /\ subprocess = None
    /\ result = None
    /\ exit_status = None
    /\ output = NoOutput
    /\ relay = RealtimeSTTServer

\* the loop condition of recording_worker
worker_loop_condition(self) == ~self.stop_event /\ self.is_recording

\* self.current_session_id or "unknown"
session_or_unknown(self) == IF self.current_session_id = Unset THEN "unknown" ELSE self.current_session_id

\* Thread.join(timeout=3.0) of stop_recording, stop_event being set.  A
\* worker that has not reached recorder.text reads a false loop condition and
\* ends within the 3 s.  A worker blocked in recorder.text ends within the
\* 3 s only if that call returns in time, which is what joined says.
join_recording_thread(self, joined) ==
    IF self.recording_thread = Unset THEN self
    ELSE IF \/ self.worker[self.recording_thread] = "started"
            \/ self.worker[self.recording_thread] = "waiting" /\ joined
    THEN [self EXCEPT !.worker[self.recording_thread] = "ended"]
    ELSE self

\* stop_recording up to the broadcast of task-finished
stop_recording_head(self, joined) ==
    [join_recording_thread([self EXCEPT !.is_recording = FALSE, !.stop_event = TRUE], joined)
        EXCEPT !.recorder = Unset]

\* stop_recording after the broadcast of task-finished
stop_recording_tail(self) ==
    [self EXCEPT !.current_session_id = Unset, !.stop_event = FALSE, !.text_queue = <<>>]

\* client_handler up to its message loop: register_client
RegisterClient(c) ==
    /\ relay.handler[c].at = "none"
    /\ relay' = [relay EXCEPT !.clients = @ \cup {c}, !.handler[c] = Idle]
    /\ UNCHANGED RelayVars

\* a run-task message while a recording is active: start_recording returns
\* False at once and the sender is sent task-failed
RunTaskRefused(c, task_id) ==
    /\ relay.handler[c].at = "idle"
    /\ task_id \notin relay.received
    /\ relay.is_recording
    /\ relay' = [relay EXCEPT !.received = @ \cup {task_id}, !.refused = @ \cup {task_id}]
    /\ UNCHANGED RelayVars

\* a run-task message while no recording is active: start_recording up to
\* its broadcast of task-started, or its except branch when the recorder
\* cannot be built
RunTask(c, task_id, built) ==
    /\ relay.handler[c].at = "idle"
    /\ task_id \notin relay.received
    /\ ~relay.is_recording
    /\ relay' = IF built
                THEN [relay EXCEPT !.received = @ \cup {task_id},
                                   !.current_session_id = task_id,
                                   !.recorder = task_id,
                                   !.is_recording = TRUE,
                                   !.handler[c] = [at |-> "starting", task_id |-> task_id]]
                ELSE [relay EXCEPT !.received = @ \cup {task_id},
                                   !.refused = @ \cup {task_id},
                                   !.current_session_id = task_id,
                                   !.is_recording = FALSE]
    /\ UNCHANGED RelayVars

\* start_recording after its broadcast of task-started: the worker thread
\* and the text_processor task are started
StartRecordingResumes(c) ==
    /\ relay.handler[c].at = "starting"
    /\ LET task_id == relay.handler[c].task_id
       IN relay' = [relay EXCEPT !.recording_thread = task_id,
                                 !.worker[task_id] = "started",
                                 !.processor[task_id] = "running",
                                 !.handler[c] = Idle]
    /\ UNCHANGED RelayVars

\* a finish-task message: stop_recording up to its broadcast of
\* task-finished, and through its end when it does not broadcast
FinishTask(c, joined) ==
    /\ relay.handler[c].at = "idle"
    /\ relay.is_recording
    /\ LET stopped == stop_recording_head(relay, joined)
       IN relay' = IF stopped.current_session_id # Unset
                   THEN [stopped EXCEPT !.handler[c] = [at |-> "stopping", task_id |-> stopped.current_session_id]]
                   ELSE stop_recording_tail(stopped)
    /\ UNCHANGED RelayVars

\* stop_recording after its broadcast of task-finished
StopRecordingResumes(c) ==
    /\ relay.handler[c].at = "stopping"
    /\ relay' = [stop_recording_tail(relay) EXCEPT !.handler[c] = Idle]
    /\ UNCHANGED RelayVars

\* the connection closes: the finally clause of client_handler runs
\* unregister_client, which stops the recording when no client is left
UnregisterClient(c, joined) ==
    /\ relay.handler[c].at = "idle"
    /\ LET left == [relay EXCEPT !.clients = @ \ {c}, !.handler[c] = Closed]
       IN relay' = IF left.clients = {} /\ left.is_recording
                   THEN stop_recording_tail(stop_recording_head(left, joined))
                   ELSE left
    /\ UNCHANGED RelayVars

\* recording_worker from its start to its first wait in recorder.text
WorkerEnters(t) ==
    /\ relay.worker[t] = "started"
    /\ relay' = [relay EXCEPT !.worker[t] =
                    IF relay.recorder # Unset /\ worker_loop_condition(relay)
                    THEN "waiting" ELSE "ended"]
    /\ UNCHANGED RelayVars

\* recorder.text returns in the worker of session t: text_callback queues
\* the text if it is not blank, and the loop condition is read again
WorkerText(t, blank) ==
    /\ relay.worker[t] = "waiting"
    /\ blank \/ Len(relay.text_queue) < MaxQueue
    /\ relay' = [relay EXCEPT !.text_queue = IF blank THEN @ ELSE Append(@, [text |-> t]),
                              !.worker[t] = IF worker_loop_condition(relay)
                                            THEN "waiting" ELSE "ended"]
    /\ UNCHANGED RelayVars

\* one iteration of text_processor, started in session t
TextProcessor(t) ==
    /\ relay.processor[t] = "running"
    /\ relay' =
         IF ~(relay.is_recording \/ relay.text_queue # <<>>)
         THEN [relay EXCEPT !.processor[t] = "ended"]
         ELSE IF relay.text_queue = <<>>
         THEN relay
         ELSE [relay EXCEPT !.text_queue = Tail(@),
                            !.sent = IF relay.clients = {} THEN @
                                     ELSE @ \cup {[task_id |-> session_or_unknown(relay),
                                                   text |-> Head(relay.text_queue).text]}]
    /\ UNCHANGED RelayVars

RelayNext ==
    \/ \E c \in Clients : RegisterClient(c)
    \/ \E c \in Clients, task_id \in TaskIds : RunTaskRefused(c, task_id)
    \/ \E c \in Clients, task_id \in TaskIds, built \in BOOLEAN : RunTask(c, task_id, built)
    \/ \E c \in Clients : StartRecordingResumes(c)
    \/ \E c \in Clients, joined \in BOOLEAN : FinishTask(c, joined)
    \/ \E c \in Clients : StopRecordingResumes(c)
    \/ \E c \in Clients, joined \in BOOLEAN : UnregisterClient(c, joined)
    \/ \E t \in TaskIds : WorkerEnters(t)
    \/ \E t \in TaskIds, blank \in BOOLEAN : WorkerText(t, blank)
    \/ \E t \in TaskIds : TextProcessor(t)

RelaySpec == RelayInit /\ [][RelayNext]_vars

---------------------------------------------------------------------------
(* C38: one recording worker at a time.                                    *)

\* the workers that are inside the while loop of recording_worker
InLoop == { t \in TaskIds : relay.worker[t] = "waiting" }

\* the worker threads that have been started and have not ended
Alive == { t \in TaskIds : relay.worker[t] \in {"started", "waiting"} }

AtMostOneWorkerInLoop == Cardinality(InLoop) <= 1

\* when the worker of a session starts, the workers of the earlier sessions
\* have left their loops
EarlierWorkersLeft ==
    \A t \in TaskIds :
        relay.worker[t] = "none" /\ relay'.worker[t] = "started" => InLoop = {}

\* a run-task received while a recording is active
RefusedWhileRecording(t) ==
    /\ relay.is_recording
    /\ t \notin relay.received
    /\ t \in relay'.received

RefusalChangesNothing ==
    \A t \in TaskIds :
        RefusedWhileRecording(t) =>
            /\ t \in relay'.refused
            /\ relay'.recorder = relay.recorder
            /\ relay'.recording_thread = relay.recording_thread
            /\ relay'.worker = relay.worker
            /\ relay'.processor = relay.processor
            /\ relay'.current_session_id = relay.current_session_id
            /\ relay'.is_recording

\* C38: at most one recording worker thread is inside its recording loop at
\* a time; a run-task received while a recording is active starts no
\* recorder and no worker, leaves current_session_id unchanged and is
\* answered with task-failed; the worker of a stopped session has left its
\* loop before the worker of a later session starts.
C38_OneRecordingWorkerAtATime ==
    /\ []AtMostOneWorkerInLoop
    /\ [][RefusalChangesNothing /\ EarlierWorkersLeft]_vars

---------------------------------------------------------------------------
(* C39: the task id of a result-generated event.                           *)

\* C39: every result-generated event that is broadcast carries the task id
\* of the session during which its text was transcribed, never the id of a
\* later session and never 'unknown'.
C39_ResultCarriesItsSession ==
    \A e \in relay.sent : e.task_id = e.text

---------------------------------------------------------------------------
(* C40: the last client leaving stops the recording.                       *)

\* nothing of a session is left in the server
Quiet(self) ==
    /\ ~self.is_recording
    /\ self.current_session_id = Unset
    /\ self.text_queue = <<>>

\* unregister_client completes with no client left, a recording being active
LastClientLeaves ==
    /\ relay.clients # {}
    /\ relay'.clients = {}
    /\ relay.is_recording

\* no client is connected before and after the step
StaysWithoutClient ==
    /\ relay.clients = {}
    /\ relay'.clients = {}

\* a client unregisters and another one remains connected
ClientLeavesOthersRemain ==
    /\ relay'.clients # {}
    /\ relay'.clients # relay.clients
    /\ relay'.clients \subseteq relay.clients

\* C40: once unregister_client has completed with no client left while a
\* recording was active, is_recording is false, current_session_id is
\* cleared and the text queue is empty, and this stays so until a client
\* connects, so that a later run-task starts a fresh session; a recording
\* keeps running while at least one client remains connected.
C40_LastClientStopsRecording ==
    [][/\ LastClientLeaves => Quiet(relay')
       /\ StaysWithoutClient /\ Quiet(relay) => Quiet(relay')
       /\ ClientLeavesOthersRemain =>
             /\ relay'.is_recording = relay.is_recording
             /\ relay'.current_session_id = relay.current_session_id
             /\ relay'.worker = relay.worker]_vars

====
